---- MODULE Spec2Model ----
(***************************************************************************)
(* Orchestration core of miniclawd: the Scheduler (job store, single       *)
(* wake-up timer, ticks, job execution) and the AsyncQueue of the message  *)
(* bus.  Time is a bounded integer clock; every `await` of the source is   *)
(* a point where other calls may interleave.                               *)
(***************************************************************************)
EXTENDS Integers, Sequences, FiniteSets, TLC

\* ------------------------------------------------------------- bounds
MaxTime == 3
MaxJobs == 2
MaxTasks == 2
MaxTimers == 3
\* How many calls of the public API one behaviour makes.
MaxCalls == 3
\* How many items are pushed to a bus queue, and how many pops are made.
MaxItems == 3
MaxPops == 4
\* Subscriptions made on the bus.
MaxSubs == 2
\* dispatchOutbound calls in progress at once.
MaxLoops == 2
\* Subagents spawned, and tool calls in one LLM response.
MaxRuns == 2
MaxToolCalls == 1

\* ------------------------------------------------------ JS primitives
\* `undefined` of an optional numeric field (nextRunAtMs?, atMs?, ...).
undefined == -1
\* An optional string field: None is undefined, Some(s) a string.
None == <<>>
Some(s) == <<s>>
\* JS truthiness of an optional number: undefined and 0 are falsy.
Truthy(n) == n # undefined /\ n # 0

Min(S) == CHOOSE x \in S : \A y \in S : x <= y
Max(a, b) == IF a >= b THEN a ELSE b

\* Array.prototype.filter on an array of job ids.
Filter(seq, Keep(_)) == SelectSeq(seq, Keep)
Range(seq) == { seq[i] : i \in 1..Len(seq) }

\* ------------------------------------------------------------- values
UserIds == 1..MaxJobs
\* The id of the synthesized heartbeat job (`heartbeat-<uuid>`), distinct
\* from every user job id.
HeartbeatId == 0
HeartbeatIntervalMs == 2
\* null of this.timerTimeout and of this.heartbeatJobId.
NoTimer == 0
NoId == -2
TimerIds == 1..MaxTimers
TaskIds == 1..MaxTasks

\* Values a job callback may reject with, and their String() rendering.
ErrBoom == [isError |-> TRUE, message |-> <<"b", "o", "o", "m">>]
ErrEmptyString == [isError |-> FALSE, message |-> <<>>]
ThrownValues == {ErrBoom, ErrEmptyString}
Ok == [ok |-> TRUE]
Failure(v) == [ok |-> FALSE, error |-> v]
Outcomes == {Ok} \cup { Failure(v) : v \in ThrownValues }

\* String(error): an Error renders as "Error" or "Error: <message>", a
\* primitive string as itself.
String(v) ==
    IF v.isError
    THEN IF v.message = <<>>
         THEN <<"E", "r", "r", "o", "r">>
         ELSE <<"E", "r", "r", "o", "r", ":", " ">> \o v.message
    ELSE v.message

\* The schedules addJob is called with in this model.
AtSchedule(ms) == [kind |-> "at", atMs |-> ms, everyMs |-> undefined, expr |-> ""]
EverySchedule(ms) == [kind |-> "every", atMs |-> undefined, everyMs |-> ms, expr |-> ""]
CronSchedule(e) == [kind |-> "cron", atMs |-> undefined, everyMs |-> undefined, expr |-> e]
Schedules == {AtSchedule(2), EverySchedule(2)}

\* cron-parser: "bad" does not parse (throws); "*/2" is every second
\* instant, the next one strictly after currentMs.
CronParses(expr) == expr = "*/2"
CronNext(expr, currentMs) == currentMs + 2 - (currentMs % 2)

\* What a call that throws yields in place of a number.
Exception == -3

\* The "at" case with >= for > .
atNextRunInclusive(schedule, currentMs) ==
    IF Truthy(schedule.atMs) /\ schedule.atMs >= currentMs
    THEN schedule.atMs
    ELSE undefined

\* The "at" case (lines 39-43).
atNextRun(schedule, currentMs) ==
    IF Truthy(schedule.atMs) /\ schedule.atMs > currentMs
    THEN schedule.atMs
    ELSE undefined

\* The "every" case without the guard of lines 46-48.
everyNextRunUnguarded(schedule, currentMs) == currentMs + schedule.everyMs

\* The "every" case (lines 45-50).
everyNextRun(schedule, currentMs) ==
    IF ~Truthy(schedule.everyMs) \/ schedule.everyMs <= 0
    THEN undefined
    ELSE currentMs + schedule.everyMs

\* The "cron" case without the try/catch of lines 53-61.
cronNextRunUncaught(schedule, currentMs) ==
    IF CronParses(schedule.expr)
    THEN CronNext(schedule.expr, currentMs)
    ELSE Exception

\* The "cron" case (lines 52-62): a failure to parse is caught.
cronNextRun(schedule, currentMs) ==
    IF CronParses(schedule.expr)
    THEN CronNext(schedule.expr, currentMs)
    ELSE undefined

computeNextRun(schedule, currentMs) ==
    IF schedule.kind = "at"
    THEN atNextRun(schedule, currentMs)
    ELSE IF schedule.kind = "every"
    THEN everyNextRun(schedule, currentMs)
    ELSE IF schedule.kind = "cron" /\ schedule.expr # ""
    THEN cronNextRun(schedule, currentMs)
    ELSE undefined

\* ---------------------------------------------------------- variables
VARIABLES
    now,              \* Date.now()
    heartbeatFile,    \* HEARTBEAT.md: TRUE when it holds actionable text
    heartbeatEnabled, \* this.heartbeatEnabled (constructor option)
    file,             \* the persisted job file: the jobs last written
    storeLoaded,      \* this.store !== null
    jobs,             \* the job objects ever created, by id
    storeJobs,        \* this.store.jobs: ids in array order
    running,          \* this._running
    timerTimeout,     \* this.timerTimeout: a timer handle or null
    timers,           \* the pending (armed, not yet fired) timeouts
    heartbeatJobId,   \* this.heartbeatJobId
    nextId,           \* the next fresh user job id
    calls,            \* how many public API calls were made so far
    tasks,            \* the async calls in progress: ticks, runJob, triggerHeartbeat
    fired,            \* history: <<job, due instant>> the timer path invoked the callback for
    refired,          \* history: pairs of `fired` invoked more than once
    executed,         \* history: one-shot jobs whose execution has completed
    reinvoked,        \* history: jobs of `executed` the timer path invoked again
    thrown,           \* history: calls that rejected to their caller
    \* One AsyncQueue of the message bus.
    queue,            \* this.queue: the buffered items
    resolvers,        \* this.resolvers: the waiting consumers' resolve functions
    pops,             \* the pop / popWithTimeout calls made, by call id
    timeouts,         \* the popWithTimeout calls whose setTimeout is pending
    pushed,           \* how many items were pushed (item k is the k-th pushed)
    delivered,        \* history: the items handed to consumers, in hand-over order
    \* The MessageBus around its outbound queue.
    busRunning,       \* this._running of the bus
    outboundSubscribers, \* this.outboundSubscribers: channel -> callbacks
    msgChannel,       \* msg.channel of the k-th message published
    loops,            \* the dispatchOutbound calls: where each is suspended
    ready,            \* the loops whose awaited pop has settled, in settling order
    invoked,          \* history: the callbacks invoked with each message
    started,          \* history: the messages in the order their dispatch began
    dispatched,       \* history: the messages whose dispatch is complete
    failures,         \* history: <<message, callback>> of callbacks that failed
    \* The SubagentManager, publishing on the inbound queue.
    runningTasks,     \* this.runningTasks: the task ids in the map
    runs,             \* the runSubagent calls, by task id: where each is suspended
    inboundMsgs,      \* the k-th message published on the inbound queue
    notFound,         \* history: tool names ToolRegistry.execute did not find
    outboundWrites,   \* history: outbound messages published by subagent runs
    \* One call of a function of the scheduler module, taken alone.
    input,            \* the arguments of the call
    output,           \* what the call returned: None before it is made
    lastCall,         \* history: the public API call that returned last
    \* The message arrays built by runSubagent calls.
    messages          \* the array `messages` of each array built, by array

env == <<now, heartbeatFile, heartbeatEnabled>>
timerVars == <<timerTimeout, timers>>
invocations == <<fired, refired, reinvoked>>

schedVars == <<now, heartbeatFile, heartbeatEnabled, file, storeLoaded, jobs, storeJobs,
               running, timerTimeout, timers, heartbeatJobId, nextId, calls, tasks,
               fired, refired, executed, reinvoked, thrown>>

queueVars == <<queue, resolvers, pops, timeouts, pushed, delivered>>

busVars == <<busRunning, outboundSubscribers, msgChannel, loops, ready, invoked, started,
             dispatched, failures>>

agentVars == <<runningTasks, runs, inboundMsgs, notFound, outboundWrites>>

callVars == <<input, output, lastCall, messages>>

vars == <<schedVars, queueVars, busVars, agentVars, callVars>>

\* What each specification leaves alone.
outsideScheduler == <<queueVars, busVars, agentVars, callVars>>
outsideQueue == <<schedVars, busVars, agentVars, callVars>>
outsideDispatch == <<schedVars, agentVars, callVars>>
outsideSubagent == <<schedVars, busVars, callVars>>
outsideCall == <<schedVars, queueVars, busVars, agentVars, lastCall, messages>>
outsideApi == <<queueVars, busVars, agentVars, input, output, messages>>
outsideRun == <<schedVars, busVars, input, output, lastCall>>

\* ------------------------------------------------------------ helpers
\* An async call: the jobs it is to execute (`due`, with the instants they
\* were due at), the one it is at (`idx`), and its history: how many
\* executeJob calls it finished, how often it saved, which callbacks failed.
IdleTask == [kind |-> "none", pc |-> "idle", due |-> <<>>, dueAt |-> <<>>, size |-> 0,
             idx |-> 0, fin |-> 0, startMs |-> 0, saves |-> 0, failed |-> {}]

\* What is kept of a call that has returned: its history but for `failed`.
Returned(task, how) ==
    [IdleTask EXCEPT !.kind = task.kind, !.pc = how, !.size = task.size,
                     !.idx = task.idx, !.fin = task.fin, !.saves = task.saves]

TaskFree(t) == tasks[t].pc \in {"idle", "done", "threw"}
FreeTasks == { t \in TaskIds : TaskFree(t) }
\* The slot a new async call takes.
NewTask == Min(FreeTasks)

\* One more call of the public API.
Call == calls < MaxCalls /\ calls' = calls + 1

\* The due-job predicate of onTimer (line 366).
IsDue(job, nowMs) ==
    job.enabled /\ Truthy(job.nextRunAtMs) /\ nowMs >= job.nextRunAtMs

\* checkHeartbeatFile(): the file exists and is not "empty".
checkHeartbeatFile == heartbeatFile

\* `Infinity` of the comparator: above every instant.
Infinity == 1000
\* `nextRunAtMs || 0` in place of `nextRunAtMs || Infinity`.
orZero(n) == IF Truthy(n) THEN n ELSE 0
\* `nextRunAtMs || Infinity` (lines 462-463).
orInfinity(n) == IF Truthy(n) THEN n ELSE Infinity
\* The comparator of listJobs; Infinity - Infinity is NaN, which sort takes
\* as 0.
compareFn(a, b) ==
    IF orInfinity(a.nextRunAtMs) = Infinity /\ orInfinity(b.nextRunAtMs) = Infinity
    THEN 0
    ELSE orInfinity(a.nextRunAtMs) - orInfinity(b.nextRunAtMs)

\* Array.prototype.sort with compareFn on an array of job ids: stable, each
\* element placed before the first one that compares greater.
RECURSIVE sort(_, _)
sort(js, arr) ==
    IF arr = <<>>
    THEN <<>>
    ELSE LET rest == sort(js, SubSeq(arr, 1, Len(arr) - 1))
             x == arr[Len(arr)]
             greater == { i \in 1..Len(rest) : compareFn(js[rest[i]], js[x]) > 0 }
             k == IF greater = {} THEN Len(rest) + 1 ELSE Min(greater)
         IN SubSeq(rest, 1, k - 1) \o <<x>> \o SubSeq(rest, k, Len(rest))

\* listJobs() (lines 457-465): filter() copies the stored jobs other than
\* the heartbeat job, sort() orders the copy.
listJobs(js, sj, hb) == sort(js, Filter(sj, LAMBDA id : id # hb))

\* saveStore() writing this.store.jobs as it is, without the filter of
\* lines 198-200.
saveStoreAll(js, sj, hb) == [i \in 1..Len(sj) |-> js[sj[i]]]

\* saveStore(): the heartbeat job is filtered out, the rest written.
saveStore(js, sj, hb) ==
    LET persistJobs == Filter(sj, LAMBDA id : id # hb)
    IN [i \in 1..Len(persistJobs) |-> js[persistJobs[i]]]

getNextWakeMs(js, sj) ==
    LET times == { js[id].nextRunAtMs :
                     id \in { i \in Range(sj) :
                                js[i].enabled /\ Truthy(js[i].nextRunAtMs) } }
    IN IF times # {} THEN Min(times) ELSE undefined

\* status() (lines 554-561).
schedulerStatus(js, sj, hb, run) ==
    [running |-> run,
     jobCount |-> Len(Filter(sj, LAMBDA id : id # hb)),
     nextWakeAt |-> getNextWakeMs(js, sj)]

\* The handle setTimeout returns: one no pending timeout has.
FreshTimer(pending) ==
    LET used == { t.id : t \in pending }
    IN IF TimerIds \ used # {} THEN Min(TimerIds \ used) ELSE MaxTimers + 1

\* clearTimeout(handle) on the pending timeouts.
clearTimeout(pending, handle) == { t \in pending : t.id # handle }

\* armTimer() without the clearTimeout of lines 339-342.
armTimerNoClear(pending, js, sj, run) ==
    LET nextWake == getNextWakeMs(js, sj)
        delayMs == Max(0, nextWake - now)
        id == FreshTimer(pending)
    IN IF ~Truthy(nextWake) \/ ~run
       THEN /\ timers' = pending
            /\ timerTimeout' = timerTimeout
       ELSE /\ timers' = pending \cup {[id |-> id, at |-> now + delayMs]}
            /\ timerTimeout' = id

\* armTimer() with the delay nextWake - now in place of
\* Math.max(0, nextWake - now).
armTimerNoFloor(pending, js, sj, run) ==
    LET cleared == IF timerTimeout # NoTimer
                   THEN clearTimeout(pending, timerTimeout)
                   ELSE pending
        nextWake == getNextWakeMs(js, sj)
        delayMs == nextWake - now
        id == FreshTimer(cleared)
    IN IF ~Truthy(nextWake) \/ ~run
       THEN /\ timers' = cleared
            /\ timerTimeout' = NoTimer
       ELSE /\ timers' = cleared \cup {[id |-> id, at |-> now + delayMs]}
            /\ timerTimeout' = id

\* armTimer() without the test of this._running in line 345.
armTimerUnguarded(pending, js, sj, run) ==
    LET cleared == IF timerTimeout # NoTimer
                   THEN clearTimeout(pending, timerTimeout)
                   ELSE pending
        nextWake == getNextWakeMs(js, sj)
        delayMs == Max(0, nextWake - now)
        id == FreshTimer(cleared)
    IN IF ~Truthy(nextWake)
       THEN /\ timers' = cleared
            /\ timerTimeout' = NoTimer
       ELSE /\ timers' = cleared \cup {[id |-> id, at |-> now + delayMs]}
            /\ timerTimeout' = id

\* armTimer(), given the timeouts still pending and the store as the caller
\* leaves it.
armTimer(pending, js, sj, run) ==
    LET cleared == IF timerTimeout # NoTimer
                   THEN clearTimeout(pending, timerTimeout)
                   ELSE pending
        nextWake == getNextWakeMs(js, sj)
        delayMs == Max(0, nextWake - now)
        id == FreshTimer(cleared)
    IN IF ~Truthy(nextWake) \/ ~run
       THEN /\ timers' = cleared
            /\ timerTimeout' = NoTimer
       ELSE /\ timers' = cleared \cup {[id |-> id, at |-> now + delayMs]}
            /\ timerTimeout' = id

\* loadStore(): the store is read from the file once.
loadStore(js, sj) ==
    IF storeLoaded
    THEN [jobs |-> js, storeJobs |-> sj]
    ELSE [jobs |-> [id \in (DOMAIN js) \cup { file[i].id : i \in 1..Len(file) } |->
                      IF \E i \in 1..Len(file) : file[i].id = id
                      THEN file[CHOOSE i \in 1..Len(file) : file[i].id = id]
                      ELSE js[id]],
          storeJobs |-> [i \in 1..Len(file) |-> file[i].id]]

\* A job object as addJob and addHeartbeatJob build it.
NewJob(id, enabled, schedule, payloadKind, deleteAfterRun, nextRunAtMs) ==
    [id |-> id, enabled |-> enabled, schedule |-> schedule,
     payloadKind |-> payloadKind, deleteAfterRun |-> deleteAfterRun,
     nextRunAtMs |-> nextRunAtMs, lastRunAtMs |-> undefined,
     lastStatus |-> "undefined", lastError |-> None]

\* js with the new object `job` added.
WithJob(js, job) ==
    [id \in (DOMAIN js) \cup {job.id} |-> IF id = job.id THEN job ELSE js[id]]

\* ----------------------------------------------------------- executeJob
\* executeJob up to its first await (lines 380-401) for the job `id` of
\* task `t`, whose record is `task`: a heartbeat job with nothing to do is
\* marked skipped and executeJob returns; otherwise onJob(job) is invoked
\* and the task is suspended on it.
executeJobBegin(t, task, id, js) ==
    LET job == js[id]
        pair == <<id, task.dueAt[task.idx]>>
        byTimer == task.kind = "tick"
    IN IF job.payloadKind = "heartbeat" /\ ~checkHeartbeatFile
       THEN /\ jobs' = [js EXCEPT ![id] =
                          [job EXCEPT !.lastStatus = "skipped",
                                      !.lastRunAtMs = now,
                                      !.nextRunAtMs = computeNextRun(job.schedule, now)]]
            /\ tasks' = [tasks EXCEPT ![t] =
                          [task EXCEPT !.pc = "next", !.startMs = now, !.fin = @ + 1]]
            /\ UNCHANGED invocations
       ELSE /\ jobs' = js
            /\ tasks' = [tasks EXCEPT ![t] = [task EXCEPT !.pc = "await", !.startMs = now]]
            /\ fired' = IF byTimer THEN fired \cup {pair} ELSE fired
            /\ refired' = IF byTimer /\ pair \in fired THEN refired \cup {pair} ELSE refired
            /\ reinvoked' = IF byTimer /\ id \in executed
                            THEN reinvoked \cup {id} ELSE reinvoked

\* executeJob without the catch of lines 409-416: a failure leaves the job
\* as it was.
executeJobEndUncaught(job, outcome, startMs, nowMs) ==
    IF outcome.ok
    THEN LET stamped == [job EXCEPT !.lastStatus = "ok", !.lastError = None,
                                    !.lastRunAtMs = startMs]
         IN IF job.schedule.kind = "at"
            THEN IF job.deleteAfterRun /\ storeLoaded
                 THEN stamped
                 ELSE [stamped EXCEPT !.enabled = FALSE, !.nextRunAtMs = undefined]
            ELSE [stamped EXCEPT !.nextRunAtMs = computeNextRun(job.schedule, nowMs)]
    ELSE job

\* The job object after its callback settled with `outcome` (lines 403-432),
\* apart from the removal of a deleteAfterRun job from the store.
executeJobEnd(job, outcome, startMs, nowMs) ==
    LET settled == IF outcome.ok
                   THEN [job EXCEPT !.lastStatus = "ok", !.lastError = None]
                   ELSE [job EXCEPT !.lastStatus = "error",
                                    !.lastError = Some(String(outcome.error))]
        stamped == [settled EXCEPT !.lastRunAtMs = startMs]
    IN IF job.schedule.kind = "at"
       THEN IF job.deleteAfterRun /\ storeLoaded
            THEN stamped
            ELSE [stamped EXCEPT !.enabled = FALSE, !.nextRunAtMs = undefined]
       ELSE [stamped EXCEPT !.nextRunAtMs = computeNextRun(job.schedule, nowMs)]

\* store.jobs after executeJob of `job` (line 424).
executeJobStore(job, sj) ==
    IF job.schedule.kind = "at" /\ job.deleteAfterRun /\ storeLoaded
    THEN Filter(sj, LAMBDA id : id # job.id)
    ELSE sj

\* The callback awaited by tick or runJob task `t` settles with `outcome`,
\* and executeJob runs to its end.
executeJobSettle(t, outcome) ==
    /\ tasks[t].kind \in {"tick", "run"}
    /\ tasks[t].pc = "await"
    /\ LET task == tasks[t]
           id == task.due[task.idx]
           job == jobs[id]
       IN /\ jobs' = [jobs EXCEPT ![id] = executeJobEnd(job, outcome, task.startMs, now)]
          /\ storeJobs' = executeJobStore(job, storeJobs)
          /\ tasks' = [tasks EXCEPT ![t] =
                        [task EXCEPT !.pc = "next", !.fin = @ + 1,
                                     !.failed = IF outcome.ok THEN @
                                                ELSE @ \cup {<<id, outcome.error>>}]]
          /\ executed' = IF job.schedule.kind = "at" THEN executed \cup {id} ELSE executed
    /\ UNCHANGED <<env, file, storeLoaded, running, timerVars, heartbeatJobId, nextId,
                   calls, invocations, thrown>>

\* ---------------------------------------------------------------- ticks
\* The armed timeout fires (lines 351-355) and, if the scheduler is running,
\* onTimer runs up to its first await: the due jobs are selected and the
\* first one is begun; with no due job the store is saved and the timer
\* re-armed at once.
onTimerStart(tm) ==
    /\ tm \in timers
    /\ now >= tm.at
    /\ FreeTasks # {}
    /\ LET pending == timers \ {tm}
           t == NewTask
           dueJobs == Filter(storeJobs, LAMBDA id : IsDue(jobs[id], now))
           task == [IdleTask EXCEPT !.kind = "tick", !.due = dueJobs,
                                    !.size = Len(dueJobs),
                                    !.dueAt = [i \in 1..Len(dueJobs) |->
                                                 jobs[dueJobs[i]].nextRunAtMs]]
       IN IF ~running \/ ~storeLoaded
          THEN /\ timers' = pending
               /\ UNCHANGED <<jobs, tasks, file, timerTimeout, invocations>>
          ELSE IF dueJobs = <<>>
          THEN /\ file' = saveStore(jobs, storeJobs, heartbeatJobId)
               /\ armTimer(pending, jobs, storeJobs, running)
               /\ tasks' = [tasks EXCEPT ![t] = Returned([task EXCEPT !.saves = 1], "done")]
               /\ UNCHANGED <<jobs, invocations>>
          ELSE /\ executeJobBegin(t, [task EXCEPT !.idx = 1], dueJobs[1], jobs)
               /\ timers' = pending
               /\ UNCHANGED <<file, timerTimeout>>
    /\ UNCHANGED <<env, storeLoaded, storeJobs, running, heartbeatJobId, nextId, calls,
                   executed, thrown>>

\* onTimer with saveStore() moved into the loop: the store is written after
\* every job.
onTimerNextSavesEach(t) ==
    /\ tasks[t].kind = "tick"
    /\ tasks[t].pc = "next"
    /\ LET task == [tasks[t] EXCEPT !.saves = @ + 1]
       IN /\ file' = saveStore(jobs, storeJobs, heartbeatJobId)
          /\ IF task.idx < Len(task.due)
             THEN /\ executeJobBegin(t, [task EXCEPT !.idx = @ + 1],
                                     task.due[task.idx + 1], jobs)
                  /\ UNCHANGED timerVars
             ELSE /\ armTimer(timers, jobs, storeJobs, running)
                  /\ tasks' = [tasks EXCEPT ![t] = Returned(task, "done")]
                  /\ UNCHANGED <<jobs, invocations>>
    /\ UNCHANGED <<env, storeLoaded, storeJobs, running, heartbeatJobId, nextId, calls,
                   executed, thrown>>

\* onTimer resumes after `await this.executeJob(job)` (lines 369-374): the
\* next due job is begun, or after the last one the store is saved and the
\* timer re-armed.
onTimerNext(t) ==
    /\ tasks[t].kind = "tick"
    /\ tasks[t].pc = "next"
    /\ LET task == tasks[t]
       IN IF task.idx < Len(task.due)
          THEN /\ executeJobBegin(t, [task EXCEPT !.idx = @ + 1], task.due[task.idx + 1], jobs)
               /\ UNCHANGED <<file, timerVars>>
          ELSE /\ file' = saveStore(jobs, storeJobs, heartbeatJobId)
               /\ armTimer(timers, jobs, storeJobs, running)
               /\ tasks' = [tasks EXCEPT ![t] = Returned([task EXCEPT !.saves = @ + 1], "done")]
               /\ UNCHANGED <<jobs, invocations>>
    /\ UNCHANGED <<env, storeLoaded, storeJobs, running, heartbeatJobId, nextId, calls,
                   executed, thrown>>

\* ----------------------------------------------------------- public API
\* addJob(options) (lines 470-494).
addJob(schedule, enabled, deleteAfterRun) ==
    /\ Call
    /\ nextId <= MaxJobs
    /\ LET ls == loadStore(jobs, storeJobs)
           job == NewJob(nextId, enabled, schedule, "agent_turn", deleteAfterRun,
                         computeNextRun(schedule, now))
           js == WithJob(ls.jobs, job)
           sj == Append(ls.storeJobs, nextId)
       IN /\ jobs' = js
          /\ storeJobs' = sj
          /\ file' = saveStore(js, sj, heartbeatJobId)
          /\ armTimer(timers, js, sj, running)
    /\ storeLoaded' = TRUE
    /\ nextId' = nextId + 1
    /\ UNCHANGED <<env, running, heartbeatJobId, tasks, invocations, executed, thrown>>

\* removeJob(jobId) (lines 499-512).
removeJob(jobId) ==
    /\ Call
    /\ LET ls == loadStore(jobs, storeJobs)
           sj == Filter(ls.storeJobs, LAMBDA id : id # jobId)
           removed == Len(sj) < Len(ls.storeJobs)
       IN /\ jobs' = ls.jobs
          /\ storeJobs' = sj
          /\ IF removed
             THEN /\ file' = saveStore(ls.jobs, sj, heartbeatJobId)
                  /\ armTimer(timers, ls.jobs, sj, running)
             ELSE UNCHANGED <<file, timerVars>>
    /\ storeLoaded' = TRUE
    /\ UNCHANGED <<env, running, heartbeatJobId, nextId, tasks, invocations, executed,
                   thrown>>

\* enableJob(jobId, enabled) (lines 517-535).
enableJob(jobId, enabled) ==
    /\ Call
    /\ LET ls == loadStore(jobs, storeJobs)
           found == jobId \in Range(ls.storeJobs)
           job == ls.jobs[jobId]
           js == [ls.jobs EXCEPT ![jobId] =
                    [job EXCEPT !.enabled = enabled,
                                !.nextRunAtMs = IF enabled
                                                THEN computeNextRun(job.schedule, now)
                                                ELSE undefined]]
       IN IF found
          THEN /\ jobs' = js
               /\ file' = saveStore(js, ls.storeJobs, heartbeatJobId)
               /\ armTimer(timers, js, ls.storeJobs, running)
               /\ storeJobs' = ls.storeJobs
               /\ executed' = IF enabled THEN executed \ {jobId} ELSE executed
          ELSE /\ jobs' = ls.jobs
               /\ storeJobs' = ls.storeJobs
               /\ UNCHANGED <<file, timerVars, executed>>
    /\ storeLoaded' = TRUE
    /\ UNCHANGED <<env, running, heartbeatJobId, nextId, tasks, invocations, thrown>>

\* runJob(jobId) up to its await (lines 540-545).
runJobStart(jobId) ==
    /\ Call
    /\ FreeTasks # {}
    /\ LET ls == loadStore(jobs, storeJobs)
           found == jobId \in Range(ls.storeJobs)
           task == [IdleTask EXCEPT !.kind = "run", !.due = <<jobId>>, !.size = 1,
                                    !.dueAt = <<undefined>>, !.idx = 1]
       IN /\ storeJobs' = ls.storeJobs
          /\ IF found
             THEN executeJobBegin(NewTask, task, jobId, ls.jobs)
             ELSE /\ jobs' = ls.jobs
                  /\ UNCHANGED <<tasks, invocations>>
    /\ storeLoaded' = TRUE
    /\ UNCHANGED <<env, file, running, timerVars, heartbeatJobId, nextId, executed, thrown>>

\* runJob returning after `await this.executeJob(job)` without saveStore().
runJobFinishUnsaved(t) ==
    /\ tasks[t].kind = "run"
    /\ tasks[t].pc = "next"
    /\ armTimer(timers, jobs, storeJobs, running)
    /\ tasks' = [tasks EXCEPT ![t] = Returned(@, "done")]
    /\ UNCHANGED <<env, file, storeLoaded, jobs, storeJobs, running, heartbeatJobId, nextId,
                   calls, invocations, executed, thrown>>

\* runJob after `await this.executeJob(job)` (lines 546-547).
runJobFinish(t) ==
    /\ tasks[t].kind = "run"
    /\ tasks[t].pc = "next"
    /\ file' = saveStore(jobs, storeJobs, heartbeatJobId)
    /\ armTimer(timers, jobs, storeJobs, running)
    /\ tasks' = [tasks EXCEPT ![t] = Returned([@ EXCEPT !.saves = @ + 1], "done")]
    /\ UNCHANGED <<env, storeLoaded, jobs, storeJobs, running, heartbeatJobId, nextId,
                   calls, invocations, executed, thrown>>

\* addHeartbeatJob() without the check of lines 273-279: a heartbeat job is
\* pushed on every start.
addHeartbeatJobAlways(js, sj) ==
    LET job == NewJob(HeartbeatId, TRUE, EverySchedule(HeartbeatIntervalMs), "heartbeat",
                      FALSE, now + HeartbeatIntervalMs)
    IN [jobs |-> WithJob(js, job), storeJobs |-> Append(sj, HeartbeatId),
        heartbeatJobId |-> HeartbeatId]

\* addHeartbeatJob() (lines 269-309): the heartbeat job already in the
\* store, or a new one pushed.
addHeartbeatJob(js, sj) ==
    LET existing == { i \in 1..Len(sj) : js[sj[i]].payloadKind = "heartbeat" }
        job == NewJob(HeartbeatId, TRUE, EverySchedule(HeartbeatIntervalMs), "heartbeat",
                      FALSE, now + HeartbeatIntervalMs)
    IN IF existing # {}
       THEN [jobs |-> js, storeJobs |-> sj, heartbeatJobId |-> sj[Min(existing)]]
       ELSE [jobs |-> WithJob(js, job), storeJobs |-> Append(sj, HeartbeatId),
             heartbeatJobId |-> HeartbeatId]

\* recomputeNextRuns() that keeps a next run already set.
recomputeNextRunsKeeping(js, sj) ==
    [id \in DOMAIN js |->
       IF id \in Range(sj) /\ js[id].enabled /\ ~Truthy(js[id].nextRunAtMs)
       THEN [js[id] EXCEPT !.nextRunAtMs = computeNextRun(js[id].schedule, now)]
       ELSE js[id]]

\* recomputeNextRuns() (lines 314-322).
recomputeNextRuns(js, sj) ==
    [id \in DOMAIN js |->
       IF id \in Range(sj) /\ js[id].enabled
       THEN [js[id] EXCEPT !.nextRunAtMs = computeNextRun(js[id].schedule, now)]
       ELSE js[id]]

\* start() (lines 240-253).
start ==
    /\ Call
    /\ LET ls == loadStore(jobs, storeJobs)
           hb == IF heartbeatEnabled
                 THEN addHeartbeatJob(ls.jobs, ls.storeJobs)
                 ELSE [jobs |-> ls.jobs, storeJobs |-> ls.storeJobs,
                       heartbeatJobId |-> heartbeatJobId]
           js == recomputeNextRuns(hb.jobs, hb.storeJobs)
       IN /\ jobs' = js
          /\ storeJobs' = hb.storeJobs
          /\ heartbeatJobId' = hb.heartbeatJobId
          /\ file' = saveStore(js, hb.storeJobs, hb.heartbeatJobId)
          /\ armTimer(timers, js, hb.storeJobs, TRUE)
    /\ running' = TRUE
    /\ storeLoaded' = TRUE
    /\ UNCHANGED <<env, nextId, tasks, invocations, executed, thrown>>

\* stop() (lines 258-264).
stop ==
    /\ Call
    /\ running' = FALSE
    /\ IF timerTimeout # NoTimer
       THEN /\ timers' = clearTimeout(timers, timerTimeout)
            /\ timerTimeout' = NoTimer
       ELSE UNCHANGED timerVars
    /\ UNCHANGED <<env, file, storeLoaded, jobs, storeJobs, heartbeatJobId, nextId, tasks,
                   invocations, executed, thrown>>

\* triggerHeartbeat() up to its await (lines 566-572): onJob is invoked on
\* the heartbeat job directly, outside executeJob.
triggerHeartbeatStart ==
    /\ Call
    /\ FreeTasks # {}
    /\ heartbeatJobId # NoId
    /\ heartbeatJobId \in Range(storeJobs)
    /\ tasks' = [tasks EXCEPT ![NewTask] =
                   [IdleTask EXCEPT !.kind = "heartbeat", !.pc = "await", !.size = 1,
                                    !.due = <<heartbeatJobId>>, !.dueAt = <<undefined>>,
                                    !.idx = 1, !.startMs = now]]
    /\ UNCHANGED <<env, file, storeLoaded, jobs, storeJobs, running, timerVars,
                   heartbeatJobId, nextId, invocations, executed, thrown>>

\* The callback awaited by triggerHeartbeat settles: nothing catches a
\* rejection, which becomes the rejection of triggerHeartbeat itself.
triggerHeartbeatSettle(t, outcome) ==
    /\ tasks[t].kind = "heartbeat"
    /\ tasks[t].pc = "await"
    /\ tasks' = [tasks EXCEPT ![t] =
                   Returned([@ EXCEPT !.fin = @ + 1],
                            IF outcome.ok THEN "done" ELSE "threw")]
    /\ thrown' = IF outcome.ok THEN thrown ELSE thrown \cup {"triggerHeartbeat"}
    /\ UNCHANGED <<env, file, storeLoaded, jobs, storeJobs, running, timerVars,
                   heartbeatJobId, nextId, calls, invocations, executed>>

\* ---------------------------------------------------------- environment
\* The clock advances.
AdvanceTime ==
    /\ now < MaxTime
    /\ now' = now + 1
    /\ UNCHANGED <<heartbeatFile, heartbeatEnabled, file, storeLoaded, jobs, storeJobs,
                   running, timerVars, heartbeatJobId, nextId, calls, tasks, invocations,
                   executed, thrown>>

\* The user edits HEARTBEAT.md.
WriteHeartbeatFile(content) ==
    /\ heartbeatFile # content
    /\ heartbeatFile' = content
    /\ UNCHANGED <<now, heartbeatEnabled, file, storeLoaded, jobs, storeJobs,
                   running, timerVars, heartbeatJobId, nextId, calls, tasks, invocations,
                   executed, thrown>>

\* ------------------------------------------------------------ AsyncQueue
PopIds == 1..MaxPops
\* The `null` a timed-out popWithTimeout resolves to.  Items are numbers.
Null == 0

\* A consumer call: whether it registered as a waiter, its promise's value
\* (<<>> until settled), and every value its resolve function was called with.
NewPop(kind, waited) ==
    [kind |-> kind, waited |-> waited, result |-> <<>>, resolved |-> <<>>]
Settled(c) == pops[c].result # <<>>
NextPop == Len(pops) + 1

\* resolve(value) of call c's promise: the first call settles it, a later
\* one changes nothing.
resolve(ps, c, value) ==
    [ps EXCEPT ![c] = [@ EXCEPT !.result = IF @ = <<>> THEN <<value>> ELSE @,
                                !.resolved = Append(@, value)]]

\* Array.prototype.indexOf, 0 when absent (JS -1).
indexOf(seq, x) ==
    IF \E i \in 1..Len(seq) : seq[i] = x
    THEN Min({ i \in 1..Len(seq) : seq[i] = x })
    ELSE 0

\* Array.prototype.splice(index, 1).
splice(seq, index) ==
    [i \in 1..(Len(seq) - 1) |-> IF i < index THEN seq[i] ELSE seq[i + 1]]

\* Array.prototype.shift: the element taken and the rest.
shift(seq) == [item |-> Head(seq), rest |-> Tail(seq)]

\* push(item) buffering the item whether or not a consumer waits.
pushAlwaysBuffers ==
    /\ pushed < MaxItems
    /\ pushed' = pushed + 1
    /\ queue' = Append(queue, pushed + 1)
    /\ UNCHANGED <<resolvers, timeouts, pops, delivered>>

\* push(item) handing the item to the newest waiter (Array.prototype.pop for
\* shift on this.resolvers).
pushNewestWaiter ==
    /\ pushed < MaxItems
    /\ LET item == pushed + 1
       IN /\ pushed' = item
          /\ IF resolvers # <<>>
             THEN LET resolver == resolvers[Len(resolvers)]
                  IN /\ resolvers' = SubSeq(resolvers, 1, Len(resolvers) - 1)
                     /\ timeouts' = timeouts \ {resolver}
                     /\ pops' = resolve(pops, resolver, item)
                     /\ delivered' = IF Settled(resolver) THEN delivered
                                     ELSE Append(delivered, item)
                     /\ UNCHANGED queue
             ELSE /\ queue' = Append(queue, item)
                  /\ UNCHANGED <<resolvers, timeouts, pops, delivered>>

\* push(item) (lines 16-23): the first waiting resolver is called with the
\* item, or the item is buffered.  The resolver of a popWithTimeout call is
\* wrappedResolve (lines 50-53): it clears the call's timeout first.
push ==
    /\ pushed < MaxItems
    /\ LET item == pushed + 1
       IN /\ pushed' = item
          /\ IF resolvers # <<>>
             THEN LET resolver == shift(resolvers).item
                  IN /\ resolvers' = shift(resolvers).rest
                     /\ timeouts' = timeouts \ {resolver}
                     /\ pops' = resolve(pops, resolver, item)
                     /\ delivered' = IF Settled(resolver) THEN delivered
                                     ELSE Append(delivered, item)
                     /\ UNCHANGED queue
             ELSE /\ queue' = Append(queue, item)
                  /\ UNCHANGED <<resolvers, timeouts, pops, delivered>>

\* pop() taking the newest buffered item (Array.prototype.pop for shift).
popNewest ==
    /\ NextPop <= MaxPops
    /\ IF queue # <<>>
       THEN /\ queue' = SubSeq(queue, 1, Len(queue) - 1)
            /\ pops' = resolve(Append(pops, NewPop("pop", FALSE)), NextPop,
                               queue[Len(queue)])
            /\ delivered' = Append(delivered, queue[Len(queue)])
            /\ UNCHANGED <<resolvers, timeouts>>
       ELSE /\ pops' = Append(pops, NewPop("pop", TRUE))
            /\ resolvers' = Append(resolvers, NextPop)
            /\ UNCHANGED <<queue, timeouts, delivered>>
    /\ UNCHANGED pushed

\* pop() (lines 25-33): the first buffered item, or a new waiter.
pop ==
    /\ NextPop <= MaxPops
    /\ IF queue # <<>>
       THEN /\ queue' = shift(queue).rest
            /\ pops' = resolve(Append(pops, NewPop("pop", FALSE)), NextPop, shift(queue).item)
            /\ delivered' = Append(delivered, shift(queue).item)
            /\ UNCHANGED <<resolvers, timeouts>>
       ELSE /\ pops' = Append(pops, NewPop("pop", TRUE))
            /\ resolvers' = Append(resolvers, NextPop)
            /\ UNCHANGED <<queue, timeouts, delivered>>
    /\ UNCHANGED pushed

\* popWithTimeout(timeoutMs) (lines 35-57): as pop, and a new waiter also
\* arms a timeout.
popWithTimeout ==
    /\ NextPop <= MaxPops
    /\ IF queue # <<>>
       THEN /\ queue' = shift(queue).rest
            /\ pops' = resolve(Append(pops, NewPop("popWithTimeout", FALSE)), NextPop,
                               shift(queue).item)
            /\ delivered' = Append(delivered, shift(queue).item)
            /\ UNCHANGED <<resolvers, timeouts>>
       ELSE /\ pops' = Append(pops, NewPop("popWithTimeout", TRUE))
            /\ resolvers' = Append(resolvers, NextPop)
            /\ timeouts' = timeouts \cup {NextPop}
            /\ UNCHANGED <<queue, delivered>>
    /\ UNCHANGED pushed

\* The timeout handler splicing the head of the waiter list instead of the
\* index of its own resolver.
timeoutFiresSplicesFirst(c) ==
    /\ c \in timeouts
    /\ timeouts' = timeouts \ {c}
    /\ resolvers' = IF resolvers # <<>> THEN splice(resolvers, 1) ELSE resolvers
    /\ pops' = resolve(pops, c, Null)
    /\ UNCHANGED <<queue, pushed, delivered>>

\* The timeout handler without the splice of lines 43-46: the resolver of
\* the timed-out call stays in the waiter list.
timeoutFiresKeepsWaiter(c) ==
    /\ c \in timeouts
    /\ timeouts' = timeouts \ {c}
    /\ pops' = resolve(pops, c, Null)
    /\ UNCHANGED <<queue, resolvers, pushed, delivered>>

\* The timeout of popWithTimeout call c fires (lines 42-48): its resolver is
\* taken out of the waiter list and the call resolves to null.
timeoutFires(c) ==
    /\ c \in timeouts
    /\ timeouts' = timeouts \ {c}
    /\ LET index == indexOf(resolvers, c)
       IN resolvers' = IF index # 0 THEN splice(resolvers, index) ELSE resolvers
    /\ pops' = resolve(pops, c, Null)
    /\ UNCHANGED <<queue, pushed, delivered>>

QueueInit ==
    /\ queue = <<>>
    /\ resolvers = <<>>
    /\ pops = <<>>
    /\ timeouts = {}
    /\ pushed = 0
    /\ delivered = <<>>

\* ------------------------------------------------------------ MessageBus
\* Channel names messages are addressed to and callbacks subscribe under.
Channels == {"telegram", "feishu"}
Callbacks == 1..MaxSubs
LoopIds == 1..MaxLoops

LoopOff == [pc |-> "off", call |-> Null, msg |-> Null, idx |-> 0]
LoopExited == [pc |-> "exited", call |-> Null, msg |-> Null, idx |-> 0]
LoopCrashed == [pc |-> "crashed", call |-> Null, msg |-> Null, idx |-> 0]

\* Every callback subscribed so far, under any channel.
Subscribed(map) == UNION { Range(map[ch]) : ch \in DOMAIN map }

\* subscribeOutbound(channel, callback) (lines 121-125): the callback is
\* appended to the channel's array, which is created on first use.  Each
\* call registers a callback of its own (a channel adapter's send method).
subscribeOutbound(channel) ==
    /\ Cardinality(Subscribed(outboundSubscribers)) < MaxSubs
    /\ LET callback == Cardinality(Subscribed(outboundSubscribers)) + 1
           subscribers == IF channel \in DOMAIN outboundSubscribers
                          THEN outboundSubscribers[channel]
                          ELSE <<>>
       IN outboundSubscribers' =
            [ch \in DOMAIN outboundSubscribers \cup {channel} |->
                IF ch = channel THEN Append(subscribers, callback)
                ELSE outboundSubscribers[ch]]
    /\ UNCHANGED <<queueVars, busRunning, msgChannel, loops, ready, invoked, started,
                   dispatched, failures>>

\* Loop l's await of line 135 becomes resumable in this step: the pop it
\* awaits is settled now and was not before (settled by a push or a
\* timeout, or returned already resolved by popWithTimeout).
Readied(l) ==
    /\ loops'[l].pc = "pop"
    /\ pops'[loops'[l].call].result # <<>>
    /\ \/ loops[l].pc # "pop"
       \/ loops[l].call # loops'[l].call
       \/ ~Settled(loops[l].call)

\* The continuations of settled promises run in settling order: a loop
\* whose pop settles in this step queues behind those already waiting.
resumeLater(waiting) ==
    ready' = IF \E l \in LoopIds : Readied(l)
             THEN Append(waiting, CHOOSE l \in LoopIds : Readied(l))
             ELSE waiting

\* publishOutbound(msg) (lines 100-102): outbound.push(msg).
publishOutbound(channel) ==
    /\ push
    /\ msgChannel' = Append(msgChannel, channel)
    /\ UNCHANGED <<busRunning, outboundSubscribers, loops, invoked, started,
                   dispatched, failures>>
    /\ resumeLater(ready)

\* this.outboundSubscribers.get(channel) without the `|| []` of line 138.
subscribersForNoDefault(map, channel) ==
    IF channel \in DOMAIN map THEN Some(map[channel]) ELSE None

\* this.outboundSubscribers.get(channel) || [] (line 138).
subscribersFor(map, channel) ==
    LET got == IF channel \in DOMAIN map THEN Some(map[channel]) ELSE None
    IN IF got = None THEN Some(<<>>) ELSE got

\* The head of the loop as `while (true)`: the running flag is not looked at.
loopAgainForever(l, run) ==
    /\ popWithTimeout
    /\ loops' = [loops EXCEPT ![l] = [pc |-> "pop", call |-> NextPop,
                                      msg |-> Null, idx |-> 0]]

\* The head of the while loop (lines 134-135): the loop ends when the bus
\* was stopped, else it awaits consumeOutboundWithTimeout(1000).
loopAgain(l, run) ==
    IF run
    THEN /\ popWithTimeout
         /\ loops' = [loops EXCEPT ![l] = [pc |-> "pop", call |-> NextPop,
                                           msg |-> Null, idx |-> 0]]
    ELSE /\ loops' = [loops EXCEPT ![l] = LoopExited]
         /\ UNCHANGED queueVars

\* The dispatchOutbound calls that have not begun or have returned.
FreeLoops == { l \in LoopIds : loops[l].pc \in {"off", "exited", "crashed"} }

\* dispatchOutbound() (lines 131-135): up to its first await.
dispatchOutbound ==
    /\ FreeLoops # {}
    /\ busRunning' = TRUE
    /\ loopAgain(Min(FreeLoops), TRUE)
    /\ UNCHANGED <<outboundSubscribers, msgChannel, invoked, started, dispatched,
                   failures>>
    /\ resumeLater(ready)

\* The await of line 135 resumes (lines 135-141): on null the loop goes
\* round; on a message it invokes the first subscriber of the message's
\* channel, or goes round when there is none.
dispatchResume(l) ==
    /\ loops[l].pc = "pop"
    /\ Settled(loops[l].call)
    /\ ready # <<>>
    /\ Head(ready) = l
    /\ LET msg == pops[loops[l].call].result[1]
       IN IF msg = Null
          THEN /\ loopAgain(l, busRunning)
               /\ UNCHANGED <<invoked, started, dispatched>>
          ELSE LET subscribers == subscribersFor(outboundSubscribers, msgChannel[msg])
               IN /\ started' = Append(started, msg)
                  /\ IF subscribers = None
                     THEN /\ loops' = [loops EXCEPT ![l] = LoopCrashed]
                          /\ UNCHANGED <<queueVars, invoked, dispatched>>
                     ELSE IF subscribers[1] = <<>>
                     THEN /\ dispatched' = Append(dispatched, [msg |-> msg, subs |-> <<>>])
                          /\ loopAgain(l, busRunning)
                          /\ UNCHANGED invoked
                     ELSE /\ invoked' = [invoked EXCEPT ![msg] = Append(@, subscribers[1][1])]
                          /\ loops' = [loops EXCEPT ![l] = [pc |-> "callback", call |-> Null,
                                                            msg |-> msg, idx |-> 1]]
                          /\ UNCHANGED <<queueVars, dispatched>>
    /\ UNCHANGED <<busRunning, outboundSubscribers, msgChannel, failures>>
    /\ resumeLater(Tail(ready))

\* The loop step after a callback settled (lines 139-145 and back to 134):
\* the next element of the subscribers array, which subscribeOutbound may
\* have appended to meanwhile, or the end of the message's dispatch.
dispatchNext(l) ==
    LET msg == loops[l].msg
        subscribers == outboundSubscribers[msgChannel[msg]]
    IN IF loops[l].idx < Len(subscribers)
       THEN /\ invoked' = [invoked EXCEPT ![msg] = Append(@, subscribers[loops[l].idx + 1])]
            /\ loops' = [loops EXCEPT ![l].idx = @ + 1]
            /\ UNCHANGED <<queueVars, dispatched>>
       ELSE /\ dispatched' = Append(dispatched, [msg |-> msg, subs |-> subscribers])
            /\ loopAgain(l, busRunning)
            /\ UNCHANGED invoked

\* await callback(msg) without the try/catch of lines 140-144: a failure
\* rejects dispatchOutbound.
callbackSettlesUncaught(l, outcome) ==
    /\ loops[l].pc = "callback"
    /\ IF outcome.ok
       THEN dispatchNext(l) /\ UNCHANGED failures
       ELSE /\ failures' = failures \cup
                  {<<loops[l].msg,
                     outboundSubscribers[msgChannel[loops[l].msg]][loops[l].idx]>>}
            /\ loops' = [loops EXCEPT ![l] = LoopCrashed]
            /\ UNCHANGED <<queueVars, invoked, dispatched>>
    /\ UNCHANGED <<busRunning, outboundSubscribers, msgChannel, started>>
    /\ resumeLater(ready)

\* await callback(msg) settles (lines 140-144): a failure is caught and
\* logged, and the loop goes on either way.
callbackSettles(l, outcome) ==
    /\ loops[l].pc = "callback"
    /\ failures' = IF outcome.ok THEN failures
                   ELSE failures \cup
                        {<<loops[l].msg,
                           outboundSubscribers[msgChannel[loops[l].msg]][loops[l].idx]>>}
    /\ dispatchNext(l)
    /\ UNCHANGED <<busRunning, outboundSubscribers, msgChannel, started>>
    /\ resumeLater(ready)

\* MessageBus.stop() (lines 152-154).
stopBus ==
    /\ busRunning
    /\ busRunning' = FALSE
    /\ UNCHANGED <<queueVars, outboundSubscribers, msgChannel, loops, ready, invoked,
                   started, dispatched, failures>>

\* The timeout of a loop's consumeOutboundWithTimeout(1000) fires.
dispatchTimeout(l) ==
    /\ loops[l].pc = "pop"
    /\ timeoutFires(loops[l].call)
    /\ ready' = Append(ready, l)
    /\ UNCHANGED <<busRunning, outboundSubscribers, msgChannel, loops, invoked, started,
                   dispatched, failures>>

BusInit ==
    /\ busRunning = FALSE
    /\ outboundSubscribers = <<>>
    /\ msgChannel = <<>>
    /\ loops = [l \in LoopIds |-> LoopOff]
    /\ ready = <<>>
    /\ invoked = [m \in 1..MaxItems |-> <<>>]
    /\ started = <<>>
    /\ dispatched = <<>>
    /\ failures = {}

\* ------------------------------------------------------ SubagentManager
\* (src/src/application/subagent.ts)
RunIds == 1..MaxRuns

\* const maxIterations = 15 (line 116).
maxIterations == 15

\* A registry that also holds the spawn and message tools.
mainAgentTools ==
    {"read_file", "write_file", "list_dir", "exec", "web_search", "web_fetch",
     "spawn", "message"}

\* The registry built for a subagent run (lines 100-106), by tool name.
subagentTools == {"read_file", "write_file", "list_dir", "exec", "web_search", "web_fetch"}

\* The tool names an LLM response may ask for: one the subagent has, and
\* the two of the main agent it must not have.
ToolNames == {"read_file", "spawn", "message"}

ToolCallSeqs ==
    UNION { [1..n -> ToolNames] : n \in 0..MaxToolCalls }

\* An LLMResponse (src/src/core/types/llm.ts): content is a string or null.
Text == <<"d", "o", "n", "e">>
Responses ==
    { [content |-> c, toolCalls |-> tc] : c \in {None, Some(Text)}, tc \in ToolCallSeqs }

LlmOutcomes ==
    { [ok |-> TRUE, response |-> resp] : resp \in Responses }
        \cup { Failure(v) : v \in ThrownValues }

\* AIProvider.hasToolCalls(response): the response contains tool calls.
hasToolCalls(response) == Len(response.toolCalls) > 0

\* SpawnOptions (lines 18-23): the optional origin of the request.
SpawnOptions ==
    { [originChannel |-> ch, originChatId |-> id] :
        ch \in {None, Some(""), Some("telegram")}, id \in {None, Some(""), Some("42")} }

\* `value || fallback` on an optional string: undefined and "" are falsy.
OrElse(value, fallback) ==
    IF value = None \/ value = Some("") THEN fallback ELSE value[1]

\* The fixed result of a run that produced no final text (line 178).
Placeholder == <<"Task completed but no final response was generated.">>

\* `Error: ${error}` (line 184).
errorMsg(error) == <<"E", "r", "r", "o", "r", ":", " ">> \o String(error)

NoRun ==
    [pc |-> "off", origin |-> [channel |-> "", chatId |-> ""], iteration |-> 0,
     calls |-> <<>>, status |-> "", byTool |-> FALSE]

\* The task ids not given out yet (randomUUID().slice(0, 8), line 61: ids
\* are taken to be distinct).
FreeRuns == { r \in RunIds : runs[r].pc = "off" }

\* The runSubagent calls that have not settled.
Unsettled(rs) == { r \in RunIds : rs[r].pc \notin {"off", "done"} }

\* publishInbound(msg) (lines 79-81 of message-bus.ts): inbound.push(msg).
publishInbound(msg) ==
    /\ push
    /\ inboundMsgs' = Append(inboundMsgs, msg)

\* announceResult putting the bare chat id into chatId.
announceResultToChat(taskId, result, origin, status) ==
    [run |-> taskId,
     channel |-> "system",
     senderId |-> "subagent",
     chatId |-> <<origin.chatId>>,
     statusText |-> IF status = "ok" THEN "completed successfully" ELSE "failed",
     result |-> result]

\* announceResult (lines 193-222): the message it builds.  `run` tags the
\* message with the run that published it.
announceResult(taskId, result, origin, status) ==
    [run |-> taskId,
     channel |-> "system",
     senderId |-> "subagent",
     chatId |-> <<origin.channel, ":", origin.chatId>>,
     statusText |-> IF status = "ok" THEN "completed successfully" ELSE "failed",
     result |-> result]

\* The end of runSubagent (lines 177-187): the result is announced and the
\* run waits for publishInbound.
finish(rs, r, result, status) ==
    /\ publishInbound(announceResult(r, result, rs[r].origin, status))
    /\ runs' = [rs EXCEPT ![r] = [@ EXCEPT !.pc = "announced", !.status = status]]

\* while (iteration <= maxIterations).
loopContinuesInclusive(iteration) == iteration <= maxIterations

\* while (iteration < maxIterations) (line 120).
loopContinues(iteration) == iteration < maxIterations

\* The head of the loop (lines 120-127, 177-182): another LLM call, or the
\* ceiling is reached and the placeholder is announced with status "ok".
loopHead(rs, r) ==
    IF loopContinues(rs[r].iteration)
    THEN /\ runs' = [rs EXCEPT ![r] = [@ EXCEPT !.pc = "llm", !.calls = <<>>,
                                               !.iteration = @ + 1]]
         /\ UNCHANGED <<queueVars, inboundMsgs>>
    ELSE finish(rs, r, Placeholder, "ok")

\* The run record of a spawn (lines 66-72), before runSubagent starts.
spawned(options, byTool) ==
    [pc |-> "start",
     origin |-> [channel |-> OrElse(options.originChannel, "cli"),
                 chatId |-> OrElse(options.originChatId, "direct")],
     iteration |-> 0, calls |-> <<>>, status |-> "", byTool |-> byTool]

\* spawn(options) (lines 60-85): the task is entered in the map and
\* runSubagent runs up to its first await; spawn returns its acknowledgement.
spawn(options) ==
    /\ FreeRuns # {}
    /\ LET taskId == Min(FreeRuns)
       IN /\ runningTasks' = runningTasks \cup {taskId}
          /\ loopHead([runs EXCEPT ![taskId] = spawned(options, FALSE)], taskId)
    /\ UNCHANGED <<notFound, outboundWrites>>

\* await provider.chat(...) settling, with no try/catch around the loop: a
\* failure rejects runSubagent.
llmSettlesUncaught(r, outcome) ==
    /\ runs[r].pc = "llm"
    /\ IF ~outcome.ok
       THEN /\ runs' = [runs EXCEPT ![r] = [@ EXCEPT !.pc = "rejected", !.status = "error"]]
            /\ UNCHANGED <<queueVars, inboundMsgs>>
       ELSE IF hasToolCalls(outcome.response)
       THEN /\ runs' = [runs EXCEPT ![r] = [@ EXCEPT !.pc = "tool",
                                                    !.calls = outcome.response.toolCalls]]
            /\ UNCHANGED <<queueVars, inboundMsgs>>
       ELSE finish(runs, r,
                   IF outcome.response.content = None THEN Placeholder
                   ELSE outcome.response.content[1],
                   "ok")
    /\ UNCHANGED <<runningTasks, notFound, outboundWrites>>

\* await provider.chat(...) settles (lines 123-187): a failure is caught and
\* announced with status "error"; a response with tool calls starts their
\* execution; one without is the final result, the placeholder when its
\* content is null.
llmSettles(r, outcome) ==
    /\ runs[r].pc = "llm"
    /\ IF ~outcome.ok
       THEN finish(runs, r, errorMsg(outcome.error), "error")
       ELSE IF hasToolCalls(outcome.response)
       THEN /\ runs' = [runs EXCEPT ![r] = [@ EXCEPT !.pc = "tool",
                                                    !.calls = outcome.response.toolCalls]]
            /\ UNCHANGED <<queueVars, inboundMsgs>>
       ELSE finish(runs, r,
                   IF outcome.response.content = None THEN Placeholder
                   ELSE outcome.response.content[1],
                   "ok")
    /\ UNCHANGED <<runningTasks, notFound, outboundWrites>>

\* await tools.execute(name, args) settles (lines 149-170, registry.ts
\* 73-85): an unknown name gives the not-found string; a registered tool is
\* run and its result, or the error it threw, comes back as a string.  The
\* spawn tool (spawn.ts 57-64) spawns with its own origin, the message tool
\* publishes an outbound message.  Then the next tool call, or the loop head.
toolSettles(r) ==
    /\ runs[r].pc = "tool"
    /\ LET name == Head(runs[r].calls)
           found == name \in subagentTools
           spawns == found /\ name = "spawn"
           child == Min(FreeRuns)
           rs == IF spawns
                 THEN [runs EXCEPT ![child] =
                         [spawned([originChannel |-> Some("cli"),
                                   originChatId |-> Some("direct")], TRUE)
                            EXCEPT !.pc = "llm", !.iteration = 1]]
                 ELSE runs
       IN /\ spawns => FreeRuns # {}
          /\ notFound' = IF found THEN notFound ELSE notFound \cup {name}
          /\ runningTasks' = IF spawns THEN runningTasks \cup {child} ELSE runningTasks
          /\ outboundWrites' = IF found /\ name = "message"
                               THEN outboundWrites + 1 ELSE outboundWrites
          /\ IF Len(runs[r].calls) > 1
             THEN /\ runs' = [rs EXCEPT ![r] = [@ EXCEPT !.calls = Tail(@)]]
                  /\ UNCHANGED <<queueVars, inboundMsgs>>
             ELSE loopHead(rs, r)

\* A run that has returned: its locals are gone, its outcome remains.
returned(run) == [NoRun EXCEPT !.pc = "done", !.status = run.status, !.byTool = run.byTool]

\* The .finally of spawn deleting the entry only of a run that succeeded.
runSettlesOnSuccess(r) ==
    /\ runs[r].pc \in {"announced", "rejected"}
    /\ runs' = [runs EXCEPT ![r] = returned(@)]
    /\ runningTasks' = IF runs[r].status = "ok" THEN runningTasks \ {r} ELSE runningTasks
    /\ UNCHANGED <<queueVars, inboundMsgs, notFound, outboundWrites>>

\* runSubagent settles (lines 75-81): a rejection is logged by .catch, and
\* .finally deletes the task's entry either way.
runSettles(r) ==
    /\ runs[r].pc \in {"announced", "rejected"}
    /\ runs' = [runs EXCEPT ![r] = returned(@)]
    /\ runningTasks' = runningTasks \ {r}
    /\ UNCHANGED <<queueVars, inboundMsgs, notFound, outboundWrites>>

\* getRunningCount() (lines 261-263).
getRunningCount == Cardinality(runningTasks)

AgentInit ==
    /\ runningTasks = {}
    /\ runs = [r \in RunIds |-> NoRun]
    /\ inboundMsgs = <<>>
    /\ notFound = {}
    /\ outboundWrites = 0

\* No function call taken alone, no API call recorded, no array built.
NoMessages == [r \in RunIds |-> <<>>]
NoCall == [n |-> 0, op |-> "none", id |-> NoId, found |-> FALSE, again |-> FALSE]
CallInit ==
    /\ input = None
    /\ output = None
    /\ lastCall = NoCall
    /\ messages = NoMessages

\* -------------------------------------------------------- specification
\* The state after `new Scheduler(options)`: nothing loaded, nothing armed.
SchedInit ==
    /\ now = 1
    /\ heartbeatFile \in BOOLEAN
    /\ heartbeatEnabled \in BOOLEAN
    /\ file = <<>>
    /\ storeLoaded = FALSE
    /\ jobs = <<>>
    /\ storeJobs = <<>>
    /\ running = FALSE
    /\ timerTimeout = NoTimer
    /\ timers = {}
    /\ heartbeatJobId = NoId
    /\ nextId = 1
    /\ calls = 0
    /\ tasks = [t \in TaskIds |-> IdleTask]
    /\ fired = {}
    /\ refired = {}
    /\ executed = {}
    /\ reinvoked = {}
    /\ thrown = {}

\* The scheduler, with the bus queue left alone.
Init == SchedInit /\ QueueInit /\ BusInit /\ AgentInit /\ CallInit

Next ==
    \/ \E tm \in timers : onTimerStart(tm) /\ UNCHANGED outsideScheduler
    \/ \E t \in TaskIds : onTimerNext(t) /\ UNCHANGED outsideScheduler
    \/ \E t \in TaskIds, o \in Outcomes : executeJobSettle(t, o) /\ UNCHANGED outsideScheduler
    \/ \E s \in Schedules, e \in BOOLEAN, d \in BOOLEAN :
          addJob(s, e, d) /\ UNCHANGED outsideScheduler
    \/ \E id \in UserIds : removeJob(id) /\ UNCHANGED outsideScheduler
    \/ \E id \in UserIds, e \in BOOLEAN : enableJob(id, e) /\ UNCHANGED outsideScheduler
    \/ \E id \in UserIds : runJobStart(id) /\ UNCHANGED outsideScheduler
    \/ \E t \in TaskIds : runJobFinish(t) /\ UNCHANGED outsideScheduler
    \/ start /\ UNCHANGED outsideScheduler
    \/ stop /\ UNCHANGED outsideScheduler
    \/ triggerHeartbeatStart /\ UNCHANGED outsideScheduler
    \/ \E t \in TaskIds, o \in Outcomes : triggerHeartbeatSettle(t, o) /\ UNCHANGED outsideScheduler
    \/ AdvanceTime /\ UNCHANGED outsideScheduler
    \/ \E c \in BOOLEAN : WriteHeartbeatFile(c) /\ UNCHANGED outsideScheduler

Spec == Init /\ [][Next]_vars

\* One bus queue, with the scheduler left as constructed.
QueueSpecInit ==
    /\ SchedInit /\ heartbeatFile = FALSE /\ heartbeatEnabled = TRUE
    /\ QueueInit /\ BusInit /\ AgentInit /\ CallInit

QueueSpecNext ==
    \/ push /\ UNCHANGED outsideQueue
    \/ pop /\ UNCHANGED outsideQueue
    \/ popWithTimeout /\ UNCHANGED outsideQueue
    \/ \E c \in PopIds : timeoutFires(c) /\ UNCHANGED outsideQueue

QueueSpec == QueueSpecInit /\ [][QueueSpecNext]_vars

\* The outbound queue with its dispatch loop, the scheduler left as
\* constructed.
DispatchSpecInit ==
    /\ SchedInit /\ heartbeatFile = FALSE /\ heartbeatEnabled = TRUE
    /\ QueueInit /\ BusInit /\ AgentInit /\ CallInit

DispatchSpecNext ==
    \/ \E ch \in Channels : subscribeOutbound(ch) /\ UNCHANGED outsideDispatch
    \/ \E ch \in Channels : publishOutbound(ch) /\ UNCHANGED outsideDispatch
    \/ dispatchOutbound /\ UNCHANGED outsideDispatch
    \/ \E l \in LoopIds : dispatchResume(l) /\ UNCHANGED outsideDispatch
    \/ \E l \in LoopIds, o \in Outcomes : callbackSettles(l, o) /\ UNCHANGED outsideDispatch
    \/ \E l \in LoopIds : dispatchTimeout(l) /\ UNCHANGED outsideDispatch
    \/ stopBus /\ UNCHANGED outsideDispatch

DispatchSpec == DispatchSpecInit /\ [][DispatchSpecNext]_vars

\* The dispatch loop started only on a bus that is not running: for the
\* first time, or again after stop().
RestartNext ==
    \/ \E ch \in Channels : subscribeOutbound(ch) /\ UNCHANGED outsideDispatch
    \/ \E ch \in Channels : publishOutbound(ch) /\ UNCHANGED outsideDispatch
    \/ ~busRunning /\ dispatchOutbound /\ UNCHANGED outsideDispatch
    \/ \E l \in LoopIds : dispatchResume(l) /\ UNCHANGED outsideDispatch
    \/ \E l \in LoopIds, o \in Outcomes : callbackSettles(l, o) /\ UNCHANGED outsideDispatch
    \/ \E l \in LoopIds : dispatchTimeout(l) /\ UNCHANGED outsideDispatch
    \/ stopBus /\ UNCHANGED outsideDispatch

RestartSpec == DispatchSpecInit /\ [][RestartNext]_vars

\* The subagent manager publishing on the inbound queue, the scheduler and
\* the outbound dispatch left as constructed.
SubagentSpecInit ==
    /\ SchedInit /\ heartbeatFile = FALSE /\ heartbeatEnabled = TRUE
    /\ QueueInit /\ BusInit /\ AgentInit /\ CallInit

SubagentSpecNext ==
    \/ \E options \in SpawnOptions : spawn(options) /\ UNCHANGED outsideSubagent
    \/ \E r \in RunIds, o \in LlmOutcomes : llmSettles(r, o) /\ UNCHANGED outsideSubagent
    \/ \E r \in RunIds : toolSettles(r) /\ UNCHANGED outsideSubagent
    \/ \E r \in RunIds : runSettles(r) /\ UNCHANGED outsideSubagent

SubagentSpec == SubagentSpecInit /\ [][SubagentSpecNext]_vars

\* ------------------------------------------------- the messages of a run
\* Tool rounds of a run and tool calls of a response that are followed
\* message by message.
MaxTurns == 2
MaxRunToolCalls == 2

\* A tool the subagent registry holds and one it does not.
RunToolNames == {"read_file", "spawn"}

RunResponses ==
    { [content |-> Some(Text), toolCalls |-> tc] :
        tc \in UNION { [1..n -> RunToolNames] : n \in 0..MaxRunToolCalls } }

RunLlmOutcomes ==
    { [ok |-> TRUE, response |-> resp] : resp \in RunResponses } \cup {Failure(ErrBoom)}

\* What tool.execute(params) settles with: a string, or a thrown value.
ToolOutcomes == {[ok |-> TRUE, value |-> Text]} \cup {Failure(ErrBoom)}

\* ToolRegistry.execute without the try/catch of lines 79-84: what the tool
\* throws reaches the caller.
executeUncaught(tools, name, outcome) ==
    IF name \notin tools
    THEN [ok |-> TRUE, value |-> <<"Error: Tool '", name, "' not found">>]
    ELSE outcome

\* ToolRegistry.execute(name, params) (registry.ts lines 73-85) on a
\* registry holding `tools`, the tool settling with `outcome`.
execute(tools, name, outcome) ==
    IF name \notin tools
    THEN [ok |-> TRUE, value |-> <<"Error: Tool '", name, "' not found">>]
    ELSE IF outcome.ok
    THEN [ok |-> TRUE, value |-> outcome.value]
    ELSE [ok |-> TRUE,
          value |-> <<"Error executing ", name, ": ">> \o String(outcome.error)]

\* One array `messages` kept by the manager for every run.
messagesOfManager(r) == 1

\* The array `messages` of run r: runSubagent builds one in each call
\* (lines 110-113).
messagesOf(r) == r

\* The two messages a run starts with (lines 110-113).
firstMessages(r) == <<[run |-> r, role |-> "system"], [run |-> r, role |-> "user"]>>

\* The assistant message carrying the tool calls of a response (lines
\* 131-146).
assistantMessage(r, response) ==
    [run |-> r, role |-> "assistant", text |-> response.content,
     toolCalls |-> [i \in 1..Len(response.toolCalls) |->
                      [toolCallId |-> i, toolName |-> response.toolCalls[i]]]]

\* The tool-result message of a tool call (lines 161-171).
toolMessage(r, toolCall, result) ==
    [run |-> r, role |-> "tool", toolCallId |-> toolCall.toolCallId,
     toolName |-> toolCall.toolName, result |-> result]

\* The last assistant message of an array.
lastAssistant(msgs) ==
    LET at == { i \in 1..Len(msgs) : msgs[i].role = "assistant" }
    IN IF at = {} THEN 0 ELSE CHOOSE i \in at : \A j \in at : j <= i

\* spawn(options), with the array runSubagent builds.
spawnRun(options) ==
    /\ spawn(options)
    /\ LET r == Min(FreeRuns)
       IN messages' = [messages EXCEPT ![messagesOf(r)] = firstMessages(r)]

\* provider.chat settles in run r (lines 123-146): a response with tool
\* calls is pushed as an assistant message.
chatReturns(r, outcome) ==
    /\ (outcome.ok /\ hasToolCalls(outcome.response)) => runs[r].iteration <= MaxTurns
    /\ llmSettles(r, outcome)
    /\ messages' = IF outcome.ok /\ hasToolCalls(outcome.response)
                   THEN [messages EXCEPT ![messagesOf(r)] =
                           Append(@, assistantMessage(r, outcome.response))]
                   ELSE messages

\* tools.execute settles in run r (lines 149-171), the tool, if there is
\* one, settling with `outcome`: the result is pushed as a tool message.  A
\* rejection would be caught by the catch of lines 183-187.
toolReturns(r, outcome) ==
    /\ runs[r].pc = "tool"
    /\ LET msgs == messages[messagesOf(r)]
           sent == msgs[lastAssistant(msgs)].toolCalls
           toolCall == sent[Len(sent) - Len(runs[r].calls) + 1]
           result == execute(subagentTools, Head(runs[r].calls), outcome)
       IN IF result.ok
          THEN /\ toolSettles(r)
               /\ messages' = [messages EXCEPT ![messagesOf(r)] =
                                 Append(@, toolMessage(r, toolCall, result.value))]
          ELSE /\ finish(runs, r, errorMsg(result.error), "error")
               /\ UNCHANGED <<runningTasks, notFound, outboundWrites, messages>>

\* runSubagent settles: its array is dropped.
runReturns(r) ==
    /\ runSettles(r)
    /\ messages' = [messages EXCEPT ![messagesOf(r)] = <<>>]

RunSpecNext ==
    \/ spawnRun([originChannel |-> None, originChatId |-> None]) /\ UNCHANGED outsideRun
    \/ \E r \in RunIds, o \in RunLlmOutcomes : chatReturns(r, o) /\ UNCHANGED outsideRun
    \/ \E r \in RunIds, o \in ToolOutcomes : toolReturns(r, o) /\ UNCHANGED outsideRun
    \/ \E r \in RunIds : runReturns(r) /\ UNCHANGED outsideRun

RunSpec == SubagentSpecInit /\ [][RunSpecNext]_vars

\* ---------------------------------------------------------- properties
Ticking == { t \in TaskIds : tasks[t].kind = "tick" /\ tasks[t].pc \in {"await", "next"} }

\* The step in which the callback awaited by tick t rejects with `v` for job `id`.
TickFails(t, id, v) ==
    /\ tasks[t].kind = "tick"
    /\ tasks[t].pc = "await"
    /\ tasks'[t].pc = "next"
    /\ id = tasks[t].due[tasks[t].idx]
    /\ <<id, v>> \in tasks'[t].failed \ tasks[t].failed

\* The step in which tick t, one of whose callbacks failed, returns.
FailedTickReturns(t) ==
    /\ tasks[t].kind = "tick"
    /\ tasks[t].pc = "next"
    /\ tasks[t].failed # {}
    /\ tasks'[t].pc = "done"

\* The timer as armTimer leaves it for the store `js`, `sj`.
Rearmed(pending, js, sj, run, nowMs) ==
    IF run /\ Truthy(getNextWakeMs(js, sj))
    THEN \E tm \in pending :
            /\ pending = {tm}
            /\ tm.at = Max(nowMs, getNextWakeMs(js, sj))
    ELSE pending = {}

\* C1: the timer path invokes the callback of a job at most once for each
\* instant (value of nextRunAtMs) at which the job became due.
C1_FiresAtMostOncePerDueInstant == refired = {}

\* C2: while a tick's batch is executing, no wake-up timer is outstanding and
\* no second tick is in progress.
C2_TickRunsToCompletionAlone ==
    Ticking # {} => timers = {} /\ Cardinality(Ticking) = 1

\* C3: at most one wake-up timer is outstanding, and it is the one
\* this.timerTimeout refers to (so the next re-arm cancels it).
C3_AtMostOneTimer ==
    /\ Cardinality(timers) <= 1
    /\ \A tm \in timers : tm.id = timerTimeout

\* C3 witness: the timer is armed again after a tick has run to its end and
\* a later call has re-armed it.
C3_RearmedAfterTick ==
    /\ timers # {}
    /\ calls = MaxCalls
    /\ \E t \in TaskIds : tasks[t].kind = "tick" /\ tasks[t].pc = "done" /\ tasks[t].size > 0

\* C4: no scheduler operation that invokes the job callback rejects to its
\* caller because the callback failed.
C4_NoFailurePropagates == thrown = {}

\* C5 as claimed: when a due job's callback throws during a tick, the failed
\* job shows lastStatus = "error" and a non-empty lastError in listJobs();
\* the tick still executes its other due jobs, persists and re-arms.
C5_FailedJobListed ==
    [][\A t \in TaskIds :
         /\ \A id \in DOMAIN jobs, v \in ThrownValues :
              TickFails(t, id, v) =>
                /\ id \in Range(listJobs(jobs', storeJobs', heartbeatJobId'))
                /\ jobs'[id].lastStatus = "error"
                /\ jobs'[id].lastError \notin {None, Some(<<>>)}
         /\ FailedTickReturns(t) =>
                /\ tasks[t].fin = tasks[t].size
                /\ file' = saveStore(jobs', storeJobs', heartbeatJobId')
                /\ Rearmed(timers', jobs', storeJobs', running', now')]_vars

\* C5 amended: the failure is recorded on the job object as lastStatus =
\* "error" and lastError = String(error); the job stays listed exactly if it
\* was listed and is not a one-shot job with deleteAfterRun; the tick still
\* executes every job of its batch, persists, and re-arms the timer when the
\* scheduler is running and an enabled job has a next run.
C5_FailureIsolated ==
    [][\A t \in TaskIds :
         /\ \A id \in DOMAIN jobs, v \in ThrownValues :
              TickFails(t, id, v) =>
                /\ jobs'[id].lastStatus = "error"
                /\ jobs'[id].lastError = Some(String(v))
                /\ (v.isError => jobs'[id].lastError # Some(<<>>))
                /\ id \in Range(listJobs(jobs', storeJobs', heartbeatJobId'))
                     <=> /\ id \in Range(listJobs(jobs, storeJobs, heartbeatJobId))
                         /\ ~(jobs[id].schedule.kind = "at" /\ jobs[id].deleteAfterRun)
         /\ FailedTickReturns(t) =>
                /\ tasks[t].fin = tasks[t].size
                /\ file' = saveStore(jobs', storeJobs', heartbeatJobId')
                /\ Rearmed(timers', jobs', storeJobs', running', now')]_vars

\* C5 witness: a tick one of whose callbacks failed has gone on to finish a
\* second job of its batch.
C5_FailedThenNextRan ==
    \E t \in TaskIds :
        /\ tasks[t].kind = "tick"
        /\ tasks[t].pc = "next"
        /\ tasks[t].fin = 2
        /\ \E p \in tasks[t].failed : p[1] = tasks[t].due[1]

\* C6: every stored job with enabled = false has nextRunAtMs = undefined.
C6_DisabledHasNoNextRun ==
    \A id \in Range(storeJobs) : ~jobs[id].enabled => jobs[id].nextRunAtMs = undefined

\* C7: once a one-shot job has been executed (and until a caller enables it
\* again) it is gone from the store if deleteAfterRun, else disabled with no
\* next run, and the timer path never invokes its callback again.
C7_OneShotRunsOnce ==
    /\ \A id \in executed :
          IF jobs[id].deleteAfterRun
          THEN id \notin Range(storeJobs)
          ELSE id \in Range(storeJobs) =>
                  ~jobs[id].enabled /\ jobs[id].nextRunAtMs = undefined
    /\ reinvoked = {}

\* C8: a tick has at most one callback in flight, begins a job only when
\* every earlier job of its batch is finished, and saves the store exactly
\* once, when the whole batch is finished.
C8_SequentialOneSave ==
    \A t \in TaskIds :
        tasks[t].kind = "tick" =>
            /\ tasks[t].pc = "await" => tasks[t].idx = tasks[t].fin + 1 /\ tasks[t].saves = 0
            /\ tasks[t].pc = "next" => tasks[t].idx = tasks[t].fin /\ tasks[t].saves = 0
            /\ tasks[t].pc = "done" => tasks[t].fin = tasks[t].size /\ tasks[t].saves = 1

\* C8 witness: a tick with a batch of two jobs has returned.
C8_BatchOfTwoDone ==
    \E t \in TaskIds : tasks[t].kind = "tick" /\ tasks[t].pc = "done" /\ tasks[t].size = 2

\* C9: items are handed to consumers in push order: the k-th item handed
\* over is the k-th item pushed.
C9_Fifo == delivered = [i \in 1..Len(delivered) |-> i]

\* C9 witness: all items were handed over, one to a consumer that had been
\* waiting and one to a consumer that found it buffered.
C9_DeliveredBothWays ==
    /\ Len(delivered) = MaxItems
    /\ \E c, d \in DOMAIN pops :
          /\ pops[c].waited /\ pops[c].result # <<>> /\ pops[c].result # <<Null>>
          /\ ~pops[d].waited /\ pops[d].result # <<>>

\* C10: the resolve function of a consumer call is called at most once, with
\* the item or with null, and every pushed item is either buffered once or
\* the result of exactly one consumer call.
C10_OneOutcomeNoLoss ==
    /\ \A c \in DOMAIN pops : Len(pops[c].resolved) <= 1
    /\ \A item \in 1..pushed :
          Cardinality({ c \in DOMAIN pops : pops[c].result = <<item>> })
            + Cardinality({ i \in DOMAIN queue : queue[i] = item }) = 1

\* C10 witness: one waiting popWithTimeout call got its item from a push,
\* another timed out, and an item pushed after that is buffered.
C10_RaceBothWays ==
    /\ queue # <<>>
    /\ \E c, d \in DOMAIN pops :
          /\ pops[c].kind = "popWithTimeout" /\ pops[c].waited
          /\ pops[c].result # <<>> /\ pops[c].result # <<Null>>
          /\ pops[d].kind = "popWithTimeout" /\ pops[d].result = <<Null>>

\* C11: a consumer call that has settled, by an item or by its timeout, has
\* no resolver left in the waiter list and no timeout pending, and the
\* resolve function of a timed-out call is never called with an item.
C11_SettledWaiterGone ==
    /\ \A i \in DOMAIN resolvers : ~Settled(resolvers[i])
    /\ \A c \in timeouts : ~Settled(c)
    /\ \A c \in DOMAIN pops : pops[c].result = <<Null>> => pops[c].resolved = <<Null>>

\* C11 witness: a popWithTimeout call timed out, and an item pushed after
\* that went to a later consumer, which found it buffered.
C11_PushAfterTimeout ==
    \E c, d \in DOMAIN pops :
        /\ c < d
        /\ pops[c].kind = "popWithTimeout" /\ pops[c].result = <<Null>>
        /\ ~pops[d].waited /\ pops[d].result # <<>>

\* C12: of two consumers that waited, the later one is handed an item only
\* after the earlier one has settled, and then a later-pushed item.
C12_WaitersResumedInOrder ==
    \A c, d \in DOMAIN pops :
        (c < d /\ pops[c].waited /\ pops[d].waited
           /\ pops[d].result # <<>> /\ pops[d].result # <<Null>>)
        => /\ Settled(c)
           /\ pops[c].result # <<Null>> => pops[c].result[1] < pops[d].result[1]

\* C12 witness: a pop and a popWithTimeout call waited together and both
\* were handed an item.
C12_TwoKindsResumed ==
    \E c, d \in DOMAIN pops :
        /\ c < d /\ pops[c].kind # pops[d].kind
        /\ pops[c].waited /\ pops[d].waited
        /\ pops[c].result = <<1>> /\ pops[d].result = <<2>>

\* C13: the callbacks invoked with a message are subscribed under the
\* message's channel and under no other, none is invoked twice, and when
\* the message's dispatch is complete they are exactly the channel's
\* subscribers, none when the channel has none; the loop never fails.
C13_FanOutExact ==
    /\ \A l \in LoopIds : loops[l].pc # "crashed"
    /\ \A m \in 1..pushed :
          /\ \A i, j \in DOMAIN invoked[m] : i # j => invoked[m][i] # invoked[m][j]
          /\ \A cb \in Range(invoked[m]) :
                \A ch \in DOMAIN outboundSubscribers :
                    cb \in Range(outboundSubscribers[ch]) <=> ch = msgChannel[m]
    /\ \A k \in DOMAIN dispatched :
          /\ invoked[dispatched[k].msg] = dispatched[k].subs
          /\ dispatched[k].subs = <<>> =>
                invoked[dispatched[k].msg] = <<>>

\* C13 witness: a message to a channel without subscribers was dropped,
\* and with both channels subscribed a later message was dispatched.
C13_DroppedThenDispatched ==
    /\ Len(dispatched) >= 2
    /\ dispatched[1].subs = <<>>
    /\ dispatched[2].subs # <<>>
    /\ DOMAIN outboundSubscribers = Channels

\* C14: the step in which a subscriber callback fails leaves the loop
\* running: it invokes the next subscriber of the message, or the message's
\* dispatch is complete with every subscriber invoked and the loop awaits
\* the next message (or ends because the bus was stopped).
C14_SubscriberFailureContained ==
    [][\A l \in LoopIds :
         (loops[l].pc = "callback" /\ loops'[l] # loops[l] /\ failures' # failures) =>
            LET msg == loops[l].msg
                subscribers == outboundSubscribers[msgChannel[msg]]
            IN \/ /\ loops'[l].pc = "callback" /\ loops'[l].msg = msg
                  /\ invoked'[msg] = Append(invoked[msg], subscribers[loops[l].idx + 1])
               \/ /\ invoked'[msg] = subscribers
                  /\ dispatched' = Append(dispatched, [msg |-> msg, subs |-> subscribers])
                  /\ \/ loops'[l].pc = "pop"
                     \/ loops'[l].pc = "exited" /\ ~busRunning]_vars

\* C14 witness: the first subscriber of a message failed, the second was
\* invoked with it, and a later message was dispatched too.
C14_FailedThenOthersServed ==
    \E f \in failures :
        /\ Len(invoked[f[1]]) = 2 /\ invoked[f[1]][1] = f[2]
        /\ \E k \in DOMAIN dispatched :
              dispatched[k].msg > f[1] /\ dispatched[k].subs # <<>>

\* C15: dispatches begin in publish order, and one begins only when every
\* earlier one is complete.
C15_DispatchInPublishOrder ==
    /\ \A i, j \in DOMAIN started : i < j => started[i] < started[j]
    /\ Len(dispatched) <= Len(started) /\ Len(started) <= Len(dispatched) + 1
    /\ \A k \in DOMAIN dispatched : dispatched[k].msg = started[k]
    /\ \A m \in 1..MaxItems : invoked[m] # <<>> => m \in Range(started)

\* The places on the inbound queue of the announcements of run r.
Announcements(r) == { k \in DOMAIN inboundMsgs : inboundMsgs[k].run = r }

\* The step in which the LLM call awaited by run r fails.
LlmFails(r) == runs[r].pc = "llm" /\ runs'[r].status = "error"

\* The step in which the last tool call of run r's final allowed iteration
\* settles.
CeilingReached(r) ==
    /\ runs[r].pc = "tool"
    /\ runs[r].iteration = maxIterations
    /\ Len(runs[r].calls) = 1
    /\ runs'[r] # runs[r]

\* C16: a run that is over has published exactly one announcement on the
\* inbound queue, a run still in its loop none, and no run ends without one.
C16_ExactlyOneAnnouncement ==
    \A r \in RunIds :
        /\ runs[r].pc # "rejected"
        /\ Cardinality(Announcements(r)) =
              IF runs[r].pc \in {"announced", "done"} THEN 1 ELSE 0

\* C16 witness: one run has failed on an LLM error and another has ended at
\* the iteration ceiling, and each has announced once.
C16_FailedAndCeilingAnnounced ==
    \E r, q \in RunIds :
        /\ runs[r].pc = "done" /\ runs[r].status = "error"
        /\ runs[q].pc = "announced" /\ runs[q].iteration = maxIterations
        /\ runs[q].calls # <<>>
        /\ Cardinality(Announcements(r)) = 1 /\ Cardinality(Announcements(q)) = 1

\* C17: a run never makes more than 15 LLM calls, and when the tool calls of
\* the 15th response have been executed the run ends by announcing the
\* placeholder result with status "ok".
C17_CeilingEndsWithPlaceholder ==
    [][\A r \in RunIds :
         /\ runs'[r].iteration <= maxIterations
         /\ CeilingReached(r) =>
               /\ runs'[r].pc = "announced"
               /\ runs'[r].status = "ok"
               /\ Len(inboundMsgs') = Len(inboundMsgs) + 1
               /\ inboundMsgs'[Len(inboundMsgs')].run = r
               /\ inboundMsgs'[Len(inboundMsgs')].result = Placeholder
               /\ inboundMsgs'[Len(inboundMsgs')].statusText = "completed successfully"]_vars

\* C17 witness: a run whose 15 responses all asked for tools has announced
\* the placeholder.
C17_CeilingAnnounced ==
    \E r \in RunIds :
        /\ runs[r].pc = "announced"
        /\ runs[r].iteration = maxIterations
        /\ runs[r].calls # <<>>
        /\ \E k \in Announcements(r) : inboundMsgs[k].result = Placeholder

\* C18: the subagent registry has neither the spawn nor the message tool; a
\* tool call naming one of them gets the not-found result and leaves the
\* running map alone; no run was spawned by a subagent's tool call, nothing
\* is published outbound, and the inbound queue receives nothing but the
\* runs' announcements, at most one per run.
C18_NoSpawnNoOutbound ==
    [][/\ subagentTools \cap {"spawn", "message"} = {}
       /\ \A r \in RunIds :
            /\ ~runs'[r].byTool
            /\ Cardinality({ k \in DOMAIN inboundMsgs' : inboundMsgs'[k].run = r }) <= 1
            /\ (/\ runs[r].pc = "tool"
                /\ runs'[r] # runs[r]
                /\ Head(runs[r].calls) \in {"spawn", "message"})
                 => /\ Head(runs[r].calls) \in notFound'
                    /\ runningTasks' = runningTasks
       /\ outboundWrites' = 0
       /\ pushed' = Len(inboundMsgs')]_vars

\* C18 witness: subagent runs have asked for the spawn tool and for the
\* message tool, and a run has announced its result.
C18_AskedForBoth ==
    /\ notFound = {"spawn", "message"}
    /\ \E r \in RunIds : runs[r].pc = "done" /\ Cardinality(Announcements(r)) = 1

\* C19: the running map holds exactly the runs that have not settled, so
\* getRunningCount() is their number, and 0 when every run has settled.
C19_CountIsUnsettledRuns ==
    /\ runningTasks = Unsettled(runs)
    /\ getRunningCount = Cardinality(Unsettled(runs))
    /\ (\A r \in RunIds : runs[r].pc \in {"off", "done"}) => getRunningCount = 0

\* C19 witness: every run was spawned and has settled, one of them failed
\* and one succeeded, and the count is back to 0.
C19_AllSettled ==
    /\ \A r \in RunIds : runs[r].pc = "done"
    /\ \E r, q \in RunIds : runs[r].status = "error" /\ runs[q].status = "ok"
    /\ getRunningCount = 0

\* C20: when the LLM call of a run throws, the run does not reject: it
\* publishes one inbound message on channel "system" from sender "subagent"
\* with the failed status, the error text as result, and the chatId made of
\* the origin channel, ":" and the origin chat id.
C20_LlmErrorAnnounced ==
    [][\A r \in RunIds :
         LlmFails(r) =>
           /\ runs'[r].pc = "announced"
           /\ r \in runningTasks'
           /\ Len(inboundMsgs') = Len(inboundMsgs) + 1
           /\ LET msg == inboundMsgs'[Len(inboundMsgs')]
              IN /\ msg.run = r
                 /\ msg.channel = "system"
                 /\ msg.senderId = "subagent"
                 /\ msg.chatId = <<runs[r].origin.channel, ":", runs[r].origin.chatId>>
                 /\ msg.statusText = "failed"
                 /\ \E v \in ThrownValues : msg.result = errorMsg(v)]_vars

\* C20 witness: a run spawned from telegram chat 42 and a run spawned
\* without an origin have both failed and announced the failure.
C20_FailedFromBothOrigins ==
    \E j, k \in DOMAIN inboundMsgs :
        /\ inboundMsgs[j].statusText = "failed" /\ inboundMsgs[k].statusText = "failed"
        /\ inboundMsgs[j].chatId = <<"telegram", ":", "42">>
        /\ inboundMsgs[k].chatId = <<"cli", ":", "direct">>
        /\ inboundMsgs[j].result = errorMsg(ErrBoom)

\* ------------------------------------------- computeNextRun taken alone
\* The largest instant and the largest schedule field drawn.
MaxMs == 4
Instants == 0..MaxMs
\* Optional numeric fields: absent, zero, negative or positive.
FieldValues == (0 - 3)..MaxMs
NextRunSchedules ==
    { AtSchedule(ms) : ms \in FieldValues } \cup { EverySchedule(ms) : ms \in FieldValues }
        \cup { CronSchedule(e) : e \in {"", "bad", "*/2"} }

NextRunInit ==
    /\ SchedInit /\ heartbeatFile = FALSE /\ heartbeatEnabled = TRUE
    /\ QueueInit /\ BusInit /\ AgentInit
    /\ input \in [schedule : NextRunSchedules, currentMs : Instants]
    /\ output = None
    /\ lastCall = NoCall
    /\ messages = NoMessages

\* The call computeNextRun(schedule, currentMs).
computeNextRunCall ==
    /\ output = None
    /\ output' = Some(computeNextRun(input.schedule, input.currentMs))
    /\ UNCHANGED input

NextRunNext ==
    \/ computeNextRunCall /\ UNCHANGED outsideCall

NextRunSpec == NextRunInit /\ [][NextRunNext]_vars

\* --------------------------------------- the heartbeat file taken alone
\* HEARTBEAT.md as content.split("\n") sees it: a sequence of lines, a line
\* a sequence of pieces.  A piece is a blank " ", one of the markers "#",
\* "<!--", "-->", a checkbox "- [ ]", "* [ ]", "- [x]", "* [x]", or a word.
\* The empty string is the single empty line; no line at all is a file
\* that does not exist.
MaxLines == 2
Absent == <<>>
EmptyString == << <<>> >>
HeartbeatLines ==
    { <<>>, <<" ">>, <<"#", " ", "Notes">>, <<"- [ ]">>, <<" ", "* [x]", " ">>,
      <<"- [ ]", " ", "oven">>, <<"oven">>, <<"<!--", "note", "-->">>,
      <<"<!--", "note", "-->", " ", "oven">>, <<"<!--">>, <<"-->">> }
HeartbeatContents ==
    {Absent} \cup UNION { [1..n -> HeartbeatLines] : n \in 1..MaxLines }

\* String.prototype.trim and startsWith, on pieces.
trim(line) ==
    LET inked == { i \in 1..Len(line) : line[i] # " " }
    IN IF inked = {}
       THEN <<>>
       ELSE SubSeq(line, Min(inked), CHOOSE i \in inked : \A j \in inked : j <= i)
startsWith(line, piece) == Len(line) > 0 /\ line[1] = piece

skipPatterns == { <<"- [ ]">>, <<"* [ ]">>, <<"- [x]">>, <<"* [x]">> }

\* isHeartbeatEmpty(content) (lines 79-99).
isHeartbeatEmpty(content) ==
    IF content = EmptyString
    THEN TRUE
    ELSE \A i \in 1..Len(content) :
           LET trimmed == trim(content[i])
           IN \/ trimmed = <<>>
              \/ startsWith(trimmed, "#")
              \/ startsWith(trimmed, "<!--")
              \/ trimmed \in skipPatterns

\* checkHeartbeatFile() on a file of the given content (lines 438-450);
\* `heartbeatFile` of the scheduler's state is this value.
shouldRun(content) ==
    IF content = Absent THEN FALSE ELSE ~isHeartbeatEmpty(content)

HeartbeatFileInit ==
    /\ SchedInit /\ heartbeatFile = FALSE /\ heartbeatEnabled = TRUE
    /\ QueueInit /\ BusInit /\ AgentInit
    /\ input \in HeartbeatContents
    /\ output = None
    /\ lastCall = NoCall
    /\ messages = NoMessages

\* The check executeJob makes for a heartbeat job (lines 384-385).
checkHeartbeatFileCall ==
    /\ output = None
    /\ output' = Some(shouldRun(input))
    /\ UNCHANGED input

HeartbeatFileNext ==
    \/ checkHeartbeatFileCall /\ UNCHANGED outsideCall

HeartbeatFileSpec == HeartbeatFileInit /\ [][HeartbeatFileNext]_vars

\* ------------------------------------------------ listJobs taken alone
\* The stores listJobs is called on: up to MaxListed jobs in array order,
\* each with a next run or none, one of them possibly the heartbeat job.
MaxListed == 3
ListedStores ==
    UNION { [jobs : [1..n -> { NewJob(0, TRUE, EverySchedule(2), "agent_turn", FALSE, next) :
                                 next \in {undefined} \cup 1..MaxTime }],
             storeJobs : {[i \in 1..n |-> i]},
             heartbeatJobId : {NoId} \cup 1..n] : n \in 0..MaxListed }

ListJobsInit ==
    /\ SchedInit /\ heartbeatFile = FALSE /\ heartbeatEnabled = TRUE
    /\ QueueInit /\ BusInit /\ AgentInit
    /\ input \in ListedStores
    /\ output = None
    /\ lastCall = NoCall
    /\ messages = NoMessages

\* The call listJobs(): what it returns, and this.store.jobs after it.
listJobsCall ==
    /\ output = None
    /\ output' = Some([returned |-> listJobs(input.jobs, input.storeJobs, input.heartbeatJobId),
                       storeJobs |-> input.storeJobs])
    /\ UNCHANGED input

ListJobsNext ==
    \/ listJobsCall /\ UNCHANGED outsideCall

ListJobsSpec == ListJobsInit /\ [][ListJobsNext]_vars

\* ------------------------------------- the job file written and read
\* A ScheduledJob with every persisted field.  A required field holds its
\* value, an optional one (atMs?, channel?, lastError?, ...) None or Some(v).
Optional(S) == {None} \cup { Some(v) : v \in S }
JobStates ==
    { [nextRunAtMs |-> Some(3), lastRunAtMs |-> None, lastStatus |-> None, lastError |-> None],
      [nextRunAtMs |-> Some(3), lastRunAtMs |-> Some(1), lastStatus |-> Some("ok"),
       lastError |-> None],
      [nextRunAtMs |-> None, lastRunAtMs |-> Some(1), lastStatus |-> Some("error"),
       lastError |-> Some("")],
      [nextRunAtMs |-> None, lastRunAtMs |-> Some(1), lastStatus |-> Some("error"),
       lastError |-> Some("Error: boom")] }
FullSchedules ==
    { [kind |-> "at", atMs |-> Some(2), everyMs |-> None, expr |-> None, tz |-> None],
      [kind |-> "every", atMs |-> None, everyMs |-> Some(2), expr |-> None, tz |-> None],
      [kind |-> "cron", atMs |-> None, everyMs |-> None, expr |-> Some("*/2"),
       tz |-> Some("UTC")] }
UserJobs ==
    [id : {1}, name : {"job"}, enabled : BOOLEAN, schedule : FullSchedules,
     payload : [kind : {"agent_turn", "system_event"}, message : {"", "hi"},
                deliver : BOOLEAN, channel : Optional({"cli"}), to : {None}],
     state : JobStates, createdAtMs : {1}, updatedAtMs : {1, 2}, deleteAfterRun : BOOLEAN]
\* The heartbeat job of addHeartbeatJob (lines 283-305).
HeartbeatJob ==
    [id |-> HeartbeatId, name |-> "heartbeat", enabled |-> TRUE,
     schedule |-> [kind |-> "every", atMs |-> None, everyMs |-> Some(HeartbeatIntervalMs),
                   expr |-> None, tz |-> None],
     payload |-> [kind |-> "heartbeat", message |-> "heartbeat", deliver |-> FALSE,
                  channel |-> None, to |-> None],
     state |-> [nextRunAtMs |-> Some(3), lastRunAtMs |-> None, lastStatus |-> None,
                lastError |-> None],
     createdAtMs |-> 1, updatedAtMs |-> 1, deleteAfterRun |-> FALSE]
\* The stores written: a user job, alone or beside the heartbeat job.
WrittenStores ==
    { [jobs |-> <<j>>, heartbeatJobId |-> NoId] : j \in UserJobs }
        \cup { [jobs |-> <<j, HeartbeatJob>>, heartbeatJobId |-> HeartbeatId] : j \in UserJobs }

\* JSON.stringify of an object literal and JSON.parse of the text: a
\* property whose value is undefined is left out, the others come back with
\* the value written.
stringify(object) == [k \in { p \in DOMAIN object : object[p] # None } |-> object[k][1]]
\* j.property of a parsed object: undefined when the text has no such key.
get(object, property) ==
    IF property \in DOMAIN object THEN Some(object[property]) ELSE None
\* value ?? fallback, and value || fallback for a boolean and a number.
nullish(value, fallback) == IF value = None THEN fallback ELSE value[1]
orBoolean(value, fallback) == IF value = None \/ value = Some(FALSE) THEN fallback ELSE value[1]
orNumber(value, fallback) == IF value = None \/ value = Some(0) THEN fallback ELSE value[1]

\* One job as saveStore writes it (lines 204-230).
saveJob(j) ==
    stringify(
      [id |-> Some(j.id), name |-> Some(j.name), enabled |-> Some(j.enabled),
       schedule |-> Some(stringify([kind |-> Some(j.schedule.kind), atMs |-> j.schedule.atMs,
                                    everyMs |-> j.schedule.everyMs, expr |-> j.schedule.expr,
                                    tz |-> j.schedule.tz])),
       payload |-> Some(stringify([kind |-> Some(j.payload.kind),
                                   message |-> Some(j.payload.message),
                                   deliver |-> Some(j.payload.deliver),
                                   channel |-> j.payload.channel, to |-> j.payload.to])),
       state |-> Some(stringify([nextRunAtMs |-> j.state.nextRunAtMs,
                                 lastRunAtMs |-> j.state.lastRunAtMs,
                                 lastStatus |-> j.state.lastStatus,
                                 lastError |-> j.state.lastError])),
       createdAtMs |-> Some(j.createdAtMs), updatedAtMs |-> Some(j.updatedAtMs),
       deleteAfterRun |-> Some(j.deleteAfterRun)])

\* The file saveStore writes for a store (lines 197-234).
saveStoreText(store) ==
    LET persistJobs == SelectSeq(store.jobs, LAMBDA j : j.id # store.heartbeatJobId)
    IN [i \in 1..Len(persistJobs) |-> saveJob(persistJobs[i])]

\* `enabled: j.enabled || true` in place of `j.enabled ?? true`.
loadEnabledOr(j) == orBoolean(get(j, "enabled"), TRUE)
\* `enabled: j.enabled ?? true` (line 149).
loadEnabled(j) == nullish(get(j, "enabled"), TRUE)

\* One job as loadStore reads it (lines 146-172).
loadJob(j) ==
    [id |-> j.id, name |-> j.name, enabled |-> loadEnabled(j),
     schedule |-> [kind |-> j.schedule.kind, atMs |-> get(j.schedule, "atMs"),
                   everyMs |-> get(j.schedule, "everyMs"), expr |-> get(j.schedule, "expr"),
                   tz |-> get(j.schedule, "tz")],
     payload |-> [kind |-> OrElse(get(j.payload, "kind"), "agent_turn"),
                  message |-> OrElse(get(j.payload, "message"), ""),
                  deliver |-> orBoolean(get(j.payload, "deliver"), FALSE),
                  channel |-> get(j.payload, "channel"), to |-> get(j.payload, "to")],
     state |-> [nextRunAtMs |-> get(j.state, "nextRunAtMs"),
                lastRunAtMs |-> get(j.state, "lastRunAtMs"),
                lastStatus |-> get(j.state, "lastStatus"),
                lastError |-> get(j.state, "lastError")],
     createdAtMs |-> orNumber(get(j, "createdAtMs"), 0),
     updatedAtMs |-> orNumber(get(j, "updatedAtMs"), 0),
     deleteAfterRun |-> orBoolean(get(j, "deleteAfterRun"), FALSE)]

\* The jobs loadStore of a fresh scheduler builds from a file (lines 143-173).
loadStoreText(text) == [i \in 1..Len(text) |-> loadJob(text[i])]

RoundTripInit ==
    /\ SchedInit /\ heartbeatFile = FALSE /\ heartbeatEnabled = TRUE
    /\ QueueInit /\ BusInit /\ AgentInit
    /\ input \in WrittenStores
    /\ output = None
    /\ lastCall = NoCall
    /\ messages = NoMessages

\* saveStore() of the scheduler that holds the store.
saveStoreCall ==
    /\ output = None
    /\ output' = <<saveStoreText(input)>>
    /\ UNCHANGED input

\* loadStore() of a fresh scheduler on the file written.
loadStoreCall ==
    /\ Len(output) = 1
    /\ output' = <<output[1], loadStoreText(output[1])>>
    /\ UNCHANGED input

RoundTripNext ==
    \/ saveStoreCall /\ UNCHANGED outsideCall
    \/ loadStoreCall /\ UNCHANGED outsideCall

RoundTripSpec == RoundTripInit /\ [][RoundTripNext]_vars

\* ------------------------------- the scheduler with its calls recorded
\* The public method `op` returns, having been called for job `id`: `found`
\* tells whether the store held that job, `again` whether the call that
\* returned before it was the same.
returns(op, id, found) ==
    lastCall' = [n |-> lastCall.n + 1, op |-> op, id |-> id, found |-> found,
                 again |-> lastCall.op = op /\ lastCall.id = id]
Stored(id) == id \in Range(loadStore(jobs, storeJobs).storeJobs)

ApiNext ==
    \/ \E tm \in timers : onTimerStart(tm) /\ UNCHANGED outsideScheduler
    \/ \E t \in TaskIds : onTimerNext(t) /\ UNCHANGED outsideScheduler
    \/ \E t \in TaskIds, o \in Outcomes : executeJobSettle(t, o) /\ UNCHANGED outsideScheduler
    \/ \E s \in Schedules, e \in BOOLEAN, d \in BOOLEAN :
          addJob(s, e, d) /\ returns("addJob", nextId, TRUE) /\ UNCHANGED outsideApi
    \/ \E id \in UserIds :
          removeJob(id) /\ returns("removeJob", id, Stored(id)) /\ UNCHANGED outsideApi
    \/ \E id \in UserIds :
          enableJob(id, TRUE) /\ returns("enableJob(true)", id, Stored(id))
              /\ UNCHANGED outsideApi
    \/ \E id \in UserIds :
          enableJob(id, FALSE) /\ returns("enableJob(false)", id, Stored(id))
              /\ UNCHANGED outsideApi
    \/ \E id \in UserIds :
          runJobStart(id) /\ Stored(id) /\ UNCHANGED outsideScheduler
    \/ \E id \in UserIds :
          runJobStart(id) /\ ~Stored(id) /\ returns("runJob", id, FALSE)
              /\ UNCHANGED outsideApi
    \/ \E t \in TaskIds :
          runJobFinish(t) /\ returns("runJob", tasks[t].due[1], TRUE) /\ UNCHANGED outsideApi
    \/ start /\ returns("start", NoId, TRUE) /\ UNCHANGED outsideApi
    \/ stop /\ returns("stop", NoId, TRUE) /\ UNCHANGED outsideApi
    \/ AdvanceTime /\ UNCHANGED outsideScheduler
    \/ \E c \in BOOLEAN : WriteHeartbeatFile(c) /\ UNCHANGED outsideScheduler

ApiSpec == Init /\ [][ApiNext]_vars

\* ------------------------------------ the scheduler on faulty schedules
\* Schedules whose required field is missing, and a cron expression that
\* does not parse.
FaultySchedules ==
    {AtSchedule(undefined), EverySchedule(undefined), CronSchedule(""), CronSchedule("bad")}

FaultyNext ==
    \/ \E tm \in timers : onTimerStart(tm) /\ UNCHANGED outsideScheduler
    \/ \E t \in TaskIds : onTimerNext(t) /\ UNCHANGED outsideScheduler
    \/ \E t \in TaskIds, o \in Outcomes : executeJobSettle(t, o) /\ UNCHANGED outsideScheduler
    \/ \E s \in FaultySchedules, e \in BOOLEAN, d \in BOOLEAN :
          addJob(s, e, d) /\ UNCHANGED outsideScheduler
    \/ \E id \in UserIds : removeJob(id) /\ UNCHANGED outsideScheduler
    \/ \E id \in UserIds, e \in BOOLEAN : enableJob(id, e) /\ UNCHANGED outsideScheduler
    \/ \E id \in UserIds : runJobStart(id) /\ UNCHANGED outsideScheduler
    \/ \E t \in TaskIds : runJobFinish(t) /\ UNCHANGED outsideScheduler
    \/ start /\ UNCHANGED outsideScheduler
    \/ stop /\ UNCHANGED outsideScheduler
    \/ AdvanceTime /\ UNCHANGED outsideScheduler

FaultySpec == Init /\ [][FaultyNext]_vars

\* The places of this.store.jobs that hold a job with payload.kind "heartbeat".
HeartbeatJobs(js, sj) == { i \in 1..Len(sj) : js[sj[i]].payloadKind = "heartbeat" }

C22_HeartbeatSingleton ==
    [][/\ (heartbeatEnabled /\ (running' \/ heartbeatJobId' # NoId))
          => Cardinality(HeartbeatJobs(jobs', storeJobs')) = 1
       /\ Cardinality(HeartbeatJobs(jobs', storeJobs')) >
            Cardinality(HeartbeatJobs(jobs, storeJobs))
          => HeartbeatJobs(jobs, storeJobs) = {}]_vars

\* C22 witness: the scheduler was started, stopped and started again, and
\* the heartbeat job is there.
C22_Restarted ==
    /\ calls = 3
    /\ running
    /\ nextId = 1
    /\ timers # {}
    /\ storeJobs = <<HeartbeatId>>
    /\ \A t \in TaskIds : tasks[t].kind = "none"

\* C24: for kind "every", computeNextRun(schedule, t) is t + everyMs when
\* everyMs > 0 and undefined when everyMs is missing, zero or negative.
C24_EveryAddsInterval ==
    (output # None /\ input.schedule.kind = "every")
        => output[1] = IF input.schedule.everyMs > 0
                       THEN input.currentMs + input.schedule.everyMs
                       ELSE undefined

\* C24 witness: an interval of 3 added to instant 1.
C24_EveryCalled ==
    /\ output = Some(4)
    /\ input.schedule = EverySchedule(3)
    /\ input.currentMs = 1

\* C25: for kind "at", computeNextRun(schedule, t) is atMs when atMs > t
\* and undefined otherwise; a number it returns is later than t.
C25_AtOnlyInFuture ==
    (output # None /\ input.schedule.kind = "at")
        => /\ output[1] = IF input.schedule.atMs > input.currentMs
                          THEN input.schedule.atMs
                          ELSE undefined
           /\ output[1] # undefined => output[1] > input.currentMs

\* C25 witness: a one-shot time equal to the current instant gives undefined.
C25_AtCalledAtItsInstant ==
    /\ output = Some(undefined)
    /\ input.schedule = AtSchedule(2)
    /\ input.currentMs = 2

\* C26: computeNextRun yields undefined, and no exception, for a cron
\* expression that does not parse and for a schedule whose required field is
\* missing; a stored job with such a schedule has no next run after addJob,
\* enableJob, start or the completion of a run, and none of them rejects.
C26_FaultyScheduleNoNextRun ==
    /\ \A s \in FaultySchedules, t \in Instants : computeNextRun(s, t) = undefined
    /\ \A id \in Range(storeJobs) :
          jobs[id].schedule \in FaultySchedules => jobs[id].nextRunAtMs = undefined
    /\ thrown = {}

\* C26 witness: a job whose cron expression does not parse was added, the
\* scheduler started, and a run of the job has completed.
C26_BadCronJobRan ==
    /\ running
    /\ 1 \in Range(storeJobs)
    /\ jobs[1].schedule = CronSchedule("bad")
    /\ jobs[1].enabled
    /\ jobs[1].lastStatus = "ok"
    /\ \A t \in TaskIds : tasks[t].pc # "await"

\* C23: the heartbeat callback is invoked exactly when HEARTBEAT.md exists
\* and holds text other than blank lines, headings, HTML comments and bare
\* checkbox markers.  HTML comments run from "<!--" to the next "-->",
\* across lines.
C23_InvokedIffOtherText ==
    LET RECURSIVE joinLines(_)
        joinLines(content) ==
            IF Len(content) = 1
            THEN content[1]
            ELSE content[1] \o <<"\n">> \o joinLines(Tail(content))
        RECURSIVE stripComments(_, _)
        stripComments(pieces, inside) ==
            IF pieces = <<>>
            THEN <<>>
            ELSE IF inside
            THEN stripComments(Tail(pieces), Head(pieces) # "-->")
            ELSE IF Head(pieces) = "<!--"
            THEN stripComments(Tail(pieces), TRUE)
            ELSE <<Head(pieces)>> \o stripComments(Tail(pieces), FALSE)
        RECURSIVE splitLines(_)
        splitLines(pieces) ==
            LET breaks == { i \in 1..Len(pieces) : pieces[i] = "\n" }
            IN IF breaks = {}
               THEN <<pieces>>
               ELSE <<SubSeq(pieces, 1, Min(breaks) - 1)>>
                      \o splitLines(SubSeq(pieces, Min(breaks) + 1, Len(pieces)))
        inert(line) ==
            \/ trim(line) = <<>>
            \/ startsWith(trim(line), "#")
            \/ trim(line) \in skipPatterns
        otherText(content) ==
            /\ content # Absent
            /\ LET lines == splitLines(stripComments(joinLines(content), FALSE))
               IN \E i \in 1..Len(lines) : ~inert(lines[i])
    IN output # None => output[1] = otherText(input)

\* C29: listJobs() returns each stored job other than the heartbeat job
\* once, in ascending order of nextRunAtMs with the jobs that have none
\* last, and leaves this.store.jobs as it was.
C29_ListedSortedStoreIntact ==
    output # None =>
        LET listed == output[1].returned
            next(i) == input.jobs[listed[i]].nextRunAtMs
        IN /\ Range(listed) = Range(input.storeJobs) \ {input.heartbeatJobId}
           /\ Len(listed) = Cardinality(Range(listed))
           /\ \A i \in 1..Len(listed), j \in 1..Len(listed) :
                 i < j => \/ next(j) = undefined
                          \/ next(i) # undefined /\ next(i) <= next(j)
           /\ output[1].storeJobs = input.storeJobs

\* C29 witness: a store of a job without next run, the heartbeat job and a
\* job due at 2, listed as the third job and then the first.
C29_ListedOutOfStoreOrder ==
    /\ output # None
    /\ Len(input.storeJobs) = 3
    /\ input.heartbeatJobId = 2
    /\ input.jobs[1].nextRunAtMs = undefined
    /\ input.jobs[3].nextRunAtMs = 2
    /\ output[1].returned = <<3, 1>>

\* C27: the jobs a fresh scheduler loads from the file saveStore wrote are
\* the jobs of the store written, field by field and in order, without the
\* heartbeat job; the file holds no heartbeat job.
C27_RoundTrip ==
    /\ Len(output) >= 1 => \A i \in 1..Len(output[1]) : output[1][i].payload.kind # "heartbeat"
    /\ Len(output) = 2 =>
          output[2] = SelectSeq(input.jobs, LAMBDA j : j.id # input.heartbeatJobId)

\* C27 witness: a disabled job that failed with an empty error text, stored
\* beside the heartbeat job, has been written and loaded back.
C27_DisabledJobReloaded ==
    /\ Len(output) = 2
    /\ Len(input.jobs) = 2
    /\ Len(output[2]) = 1
    /\ ~output[2][1].enabled
    /\ output[2][1].state.lastError = Some("")
    /\ output[2][1].payload.message = ""

\* C28: when enableJob(id, false) returns, the job has enabled = false and
\* no next run, the first time and every time after; a call on a job that
\* is already so changes no job; and if then every stored job is disabled,
\* no timer is armed.
C28_DisableIdempotent ==
    [][\A id \in UserIds :
         (/\ lastCall'.n # lastCall.n
          /\ lastCall'.op = "enableJob(false)"
          /\ lastCall'.id = id
          /\ lastCall'.found) =>
           /\ ~jobs'[id].enabled
           /\ jobs'[id].nextRunAtMs = undefined
           /\ (~jobs[id].enabled /\ jobs[id].nextRunAtMs = undefined)
                 => jobs' = jobs /\ storeJobs' = storeJobs
           /\ (\A other \in Range(storeJobs') : ~jobs'[other].enabled)
                 => timers' = {} /\ timerTimeout' = NoTimer]_vars

\* C28 witness: enableJob(1, false) has returned twice in a row on the one
\* stored job.
C28_DisabledTwice ==
    /\ lastCall.op = "enableJob(false)"
    /\ lastCall.id = 1
    /\ lastCall.found
    /\ lastCall.again
    /\ storeJobs = <<1>>
    /\ ~jobs[1].enabled
    /\ timers = {}

\* C30, as amended: when start or addJob returns, or removeJob, enableJob or
\* runJob returns from a call on a job the store held, the job file holds
\* the jobs of the store other than the heartbeat job, as they are in
\* memory; a call on an id the store does not hold leaves the file alone.
C30_PersistedWhenFound ==
    [][(/\ lastCall'.n # lastCall.n
        /\ lastCall'.op \in {"start", "addJob", "removeJob", "enableJob(true)",
                              "enableJob(false)", "runJob"})
         => IF lastCall'.found
            THEN file' = saveStore(jobs', storeJobs', heartbeatJobId')
            ELSE file' = file]_vars

\* C30 witness: runJob has returned for a stored job while the heartbeat job
\* is in the store, and the file holds the user job as it is in memory.
C30_RunJobReturnedSaved ==
    /\ lastCall.op = "runJob"
    /\ lastCall.found
    /\ heartbeatJobId \in Range(storeJobs)
    /\ Len(storeJobs) = 2
    /\ jobs[lastCall.id].lastStatus = "ok"
    /\ file = saveStore(jobs, storeJobs, heartbeatJobId)
    /\ Len(file) = 1

\* C30 as stated: when start, addJob, removeJob, enableJob or runJob
\* returns, the job file holds the jobs of the store other than the
\* heartbeat job, as they are in memory.
C30_PersistedOnReturn ==
    [][(/\ lastCall'.n # lastCall.n
        /\ lastCall'.op \in {"start", "addJob", "removeJob", "enableJob(true)",
                              "enableJob(false)", "runJob"})
         => file' = saveStore(jobs', storeJobs', heartbeatJobId')]_vars

\* C36: the item buffer and the waiter list of a bus queue are never both
\* non-empty.
C36_BufferOrWaitersEmpty == queue = <<>> \/ resolvers = <<>>

\* C36 witness: an item was buffered and taken, and now two consumers wait
\* on the empty buffer.
C36_WaitersAfterBuffering ==
    /\ Len(resolvers) = 2
    /\ queue = <<>>
    /\ \E c \in 1..Len(pops) : ~pops[c].waited /\ Settled(c)

\* C31: stop() touches neither the buffered items nor the waiters; and
\* while the bus stays stopped a dispatch loop begins no further wait: from
\* its pending wait it goes to the dispatch of the message it got or ends,
\* and from a dispatch it goes to the next subscriber or ends.
C31_StoppedLoopEnds ==
    [][/\ (busRunning /\ ~busRunning') => UNCHANGED <<queue, resolvers, pops, timeouts>>
       /\ (~busRunning /\ ~busRunning') =>
             /\ Len(pops') = Len(pops)
             /\ \A l \in LoopIds :
                   (loops[l].pc \in {"pop", "callback"} /\ loops'[l] # loops[l])
                      => loops'[l].pc \in {"callback", "exited"}]_vars

\* C31 witness: the bus was stopped, its loop has ended after the dispatch
\* in progress, and an item published meanwhile is still buffered.
C31_LoopEndedItemKept ==
    /\ ~busRunning
    /\ loops[1].pc = "exited"
    /\ loops[2].pc = "off"
    /\ Len(dispatched) = 1
    /\ dispatched[1].subs # <<>>
    /\ queue # <<>>

\* C39: at no time are two dispatch loops delivering messages, that is
\* awaiting a subscriber's callback, dispatchOutbound() being called only on
\* a bus that is not running (for the first time, or after stop()).
C39_OneLoopDelivers ==
    Cardinality({ l \in LoopIds : loops[l].pc = "callback" }) <= 1

\* C35: once removeJob(id) or enableJob(id, false) has returned for a stored
\* job, and no later call has returned, no tick begins the callback of
\* that job.
C35_NoCallbackAfterRetire ==
    [][\A t \in TaskIds :
         (/\ lastCall.op \in {"removeJob", "enableJob(false)"}
          /\ lastCall.found
          /\ lastCall' = lastCall
          /\ tasks'[t].kind = "tick"
          /\ tasks'[t].pc = "await"
          /\ tasks[t].pc # "await")
            => tasks'[t].due[tasks'[t].idx] # lastCall.id]_vars

\* C37: while the scheduler is stopped no wake-up timer is outstanding,
\* whatever call has returned since stop(), and no tick begins; a tick in
\* progress goes on through its batch and, when it returns, has finished
\* every job of the batch and saved the store, and leaves no timer.
C37_StoppedStaysQuiet ==
    [][/\ ~running' => timers' = {}
       /\ ~running =>
            \A t \in TaskIds :
               /\ ~(tasks[t].kind # "tick" /\ tasks'[t].kind = "tick")
               /\ (tasks[t].kind = "tick" /\ tasks[t].pc = "next" /\ tasks'[t] # tasks[t])
                    => IF tasks[t].idx < tasks[t].size
                       THEN tasks'[t].idx = tasks[t].idx + 1
                       ELSE /\ tasks'[t].pc = "done"
                            /\ tasks'[t].fin = tasks'[t].size
                            /\ file' = saveStore(jobs', storeJobs', heartbeatJobId')
                            /\ timers' = {}]_vars

\* C37 witness: stop() has returned while a tick is suspended on a callback,
\* and an enabled job has a next run, yet no timer is outstanding.
C37_StoppedDuringTick ==
    /\ ~running
    /\ lastCall.op = "stop"
    /\ timers = {}
    /\ Truthy(getNextWakeMs(jobs, storeJobs))
    /\ \E t \in TaskIds : tasks[t].kind = "tick" /\ tasks[t].pc = "await"

C34_ExecutedJobNotDue ==
    [][\A t \in TaskIds :
         (tasks'[t].kind = "tick" /\ tasks'[t].pc = "next" /\ tasks'[t] # tasks[t]) =>
            LET id == tasks'[t].due[tasks'[t].idx]
            IN \/ id \notin Range(storeJobs')
               \/ ~jobs'[id].enabled
               \/ jobs'[id].nextRunAtMs = undefined
               \/ jobs'[id].nextRunAtMs > now']_vars

\* C34 witness: the callback of a recurring job has failed in a tick, and
\* the job, still enabled and stored, has its next run after the current
\* time.
C34_FailedRecurringRescheduled ==
    \E t \in TaskIds :
        /\ tasks[t].kind = "tick"
        /\ tasks[t].pc = "next"
        /\ LET id == tasks[t].due[tasks[t].idx]
           IN /\ id \in Range(storeJobs)
              /\ jobs[id].schedule.kind = "every"
              /\ jobs[id].enabled
              /\ jobs[id].lastStatus = "error"
              /\ jobs[id].nextRunAtMs > now

\* C33 amended: when start or addJob returns, when removeJob, enableJob or
\* runJob returns from a call on a job that was in the store, and when a
\* tick returns, the timer is as armTimer leaves it for the store: if the
\* scheduler is running, one timer at the least nextRunAtMs of the enabled
\* jobs (at once if that is past) exactly if there is such a job, and no
\* timer if the scheduler is not running.
C33_TimerMatchesStoreWhenFound ==
    [][(\/ /\ lastCall'.n # lastCall.n
           /\ lastCall'.op \in {"start", "addJob", "removeJob", "enableJob(true)",
                                 "enableJob(false)", "runJob"}
           /\ lastCall'.found
        \/ \E t \in TaskIds :
              tasks'[t].kind = "tick" /\ tasks'[t].pc = "done" /\ tasks'[t] # tasks[t])
         => Rearmed(timers', jobs', storeJobs', running', now')]_vars

\* C33 witness: a tick has run a job and returned while the scheduler is
\* running, and the one timer outstanding is at the next run of the
\* recurring job it ran.
C33_TickRearmed ==
    /\ running
    /\ \E t \in TaskIds :
          /\ tasks[t].kind = "tick"
          /\ tasks[t].pc = "done"
          /\ tasks[t].size > 0
    /\ \E tm \in timers, id \in Range(storeJobs) :
          /\ timers = {tm}
          /\ tm.at > now
          /\ tm.at = jobs[id].nextRunAtMs
          /\ jobs[id].enabled
          /\ jobs[id].schedule.kind = "every"
          /\ jobs[id].lastStatus = "ok"

\* C33 as stated: when start, addJob, removeJob, enableJob, runJob or a
\* tick returns, the timer is as armTimer leaves it for the store: if the
\* scheduler is running, one timer at the least nextRunAtMs of the enabled
\* jobs (at once if that is past) exactly if there is such a job, and no
\* timer if the scheduler is not running.
C33_TimerMatchesStoreOnReturn ==
    [][(\/ /\ lastCall'.n # lastCall.n
           /\ lastCall'.op \in {"start", "addJob", "removeJob", "enableJob(true)",
                                 "enableJob(false)", "runJob"}
        \/ \E t \in TaskIds :
              tasks'[t].kind = "tick" /\ tasks'[t].pc = "done" /\ tasks'[t] # tasks[t])
         => Rearmed(timers', jobs', storeJobs', running', now')]_vars

\* C32: spawn returns while the first LLM call of the run is pending, with
\* no response yet in the run's messages; every message in the array of a
\* run in flight was pushed by that run; and a step changes the array of a
\* run only if it is a step of that run.
C32_RunsIsolated ==
    [][\A r \in RunIds :
         /\ (runs[r].pc = "off" /\ runs'[r].pc # "off")
               => /\ runs'[r].pc = "llm"
                  /\ messages'[messagesOf(r)] = firstMessages(r)
         /\ r \in Unsettled(runs')
               => \A i \in 1..Len(messages'[messagesOf(r)]) :
                     messages'[messagesOf(r)][i].run = r
         /\ messages'[messagesOf(r)] # messages[messagesOf(r)]
               => runs'[r] # runs[r]]_vars

\* C32 witness: two runs are in flight, each past its first LLM call with
\* tool results in its own messages.
C32_TwoRunsInFlight ==
    /\ Unsettled(runs) = {1, 2}
    /\ \A r \in {1, 2} :
          /\ runs[r].pc \in {"llm", "tool"}
          /\ Len(messages[messagesOf(r)]) >= 4

\* C40: when tools.execute settles in a run, for a tool that failed or a
\* name the registry does not hold as for any other, the run does not end
\* with status error: a tool-result message for that call is pushed after
\* the assistant message and the results of the calls before it, the result
\* being the registry's error string when the tool is unknown or threw, and
\* the run goes on to its next tool call or, after the last, to the next
\* LLM call.
C40_ToolFailureGoesOn ==
    [][\A r \in RunIds, o \in ToolOutcomes :
         (runs[r].pc = "tool" /\ runs'[r] # runs[r]) =>
            LET msgs == messages[messagesOf(r)]
                after == messages'[messagesOf(r)]
                a == lastAssistant(msgs)
                name == Head(runs[r].calls)
            IN /\ runs'[r].status # "error"
               /\ runs'[r].pc = IF Len(runs[r].calls) > 1 THEN "tool" ELSE "llm"
               /\ Len(after) = Len(msgs) + 1
               /\ \A i \in 1..Len(msgs) : after[i] = msgs[i]
               /\ \A i \in 1..(Len(after) - a) :
                     /\ after[a + i].role = "tool"
                     /\ after[a + i].toolCallId = msgs[a].toolCalls[i].toolCallId
                     /\ after[a + i].toolName = msgs[a].toolCalls[i].toolName
               /\ Len(after) - a = Len(msgs[a].toolCalls) - Len(runs[r].calls) + 1
               /\ after[Len(after)].toolName = name
               /\ name \notin subagentTools
                     => after[Len(after)].result = <<"Error: Tool '", name, "' not found">>
               /\ execute(subagentTools, name, o).ok]_vars

\* C40 witness: a run whose response asked for a tool that is not
\* registered and then for one that threw is at its next LLM call, with
\* both error strings in its messages.
C40_NextCallAfterFailures ==
    \E r \in RunIds :
        /\ runs[r].pc = "llm"
        /\ runs[r].iteration = 2
        /\ runs[r].status = ""
        /\ Len(messages[messagesOf(r)]) = 5
        /\ messages[messagesOf(r)][4].result = <<"Error: Tool '", "spawn", "' not found">>
        /\ messages[messagesOf(r)][5].result =
              <<"Error executing ", "read_file", ": ">> \o String(ErrBoom)

====
